---- MODULE Spec2Model ----
(***************************************************************************)
(* PrivacyShield for AI: the masking engine (src/lib/masking-engine.js).   *)
(*                                                                         *)
(* A text is a sequence of UTF-16 code units (naturals), as a JavaScript   *)
(* string is; '[' is 91, ']' is 93, '_' is 95, '$' is 36.  Offsets are the *)
(* 0-based offsets of JavaScript.  A regular expression is a tree of       *)
(* records matched by a backtracking matcher with the priorities of the    *)
(* ECMAScript matcher (greedy quantifiers, ordered alternatives).          *)
(***************************************************************************)
EXTENDS Integers, Sequences, FiniteSets, TLC

(***************************************************************************)
(* Regular expressions.                                                    *)
(***************************************************************************)

\* a character class: the set cs of code units, or its complement when neg
Cls(cs) == [t |-> "cls", neg |-> FALSE, cs |-> cs]
NCls(cs) == [t |-> "cls", neg |-> TRUE, cs |-> cs]
Ch(c) == Cls({c})
Cat(a) == [t |-> "cat", a |-> a]
Alt(a) == [t |-> "alt", a |-> a]
\* greedy quantifier {lo,hi}; hi = -1 is "unbounded"
Rep(r, lo, hi) == [t |-> "rep", r |-> r, lo |-> lo, hi |-> hi]
Opt(r) == Rep(r, 0, 1)
Plus(r) == Rep(r, 1, -1)
\* a literal string
Lit(s) == [t |-> "lit", s |-> s]

\* \w, \d, \s and . of an ECMAScript pattern without the u, i and s flags
WordChars == (48..57) \cup (65..90) \cup {95} \cup (97..122)
Digits == 48..57
WhiteSpace ==
    (9..13) \cup {32, 160, 5760} \cup (8192..8202)
        \cup {8232, 8233, 8239, 8287, 12288, 65279}
LineTerminators == {10, 13, 8232, 8233}
Dot == NCls(LineTerminators)

InClass(c, re) == (c \in re.cs) # re.neg

Min(S) == CHOOSE x \in S : \A y \in S : x <= y
Max(S) == CHOOSE x \in S : \A y \in S : y <= x

(***************************************************************************)
(* Match(todo, s, i): the backtracking matcher.  todo is the sequence of   *)
(* the expressions still to be matched one after the other from offset i   *)
(* of s; the value is the offset where the first successful attempt ends,  *)
(* or -1.  A quantifier is greedy: it takes the largest number of          *)
(* iterations with which the rest still matches; an alternation tries its  *)
(* alternatives from left to right.                                        *)
(***************************************************************************)
\* the length of the longest run of characters of the class cls from
\* offset i of s, at most hi characters when hi >= 0
RunLength(cls, s, i, hi) ==
    LET last == IF hi >= 0 /\ i + hi < Len(s) THEN i + hi ELSE Len(s)
        stop == CHOOSE j \in i..last :
                    /\ j = last \/ ~InClass(s[j + 1], cls)
                    /\ \A m \in (i + 1)..j : InClass(s[m], cls)
    IN  stop - i

\* the literal re does not start at offset i of s: it cannot match there
Elsewhere(re, s, i) ==
    re.t = "lit" /\ (i >= Len(s) \/ s[i + 1] # re.s[1])

RECURSIVE Match(_, _, _), MatchAlt(_, _, _, _, _)

Match(todo, s, i) ==
    IF Len(todo) = 0 THEN i
    ELSE LET re == Head(todo)
             rest == Tail(todo)
         IN  CASE re.t = "cls" ->
                     IF i < Len(s) /\ InClass(s[i + 1], re)
                     THEN Match(rest, s, i + 1) ELSE -1
               [] re.t = "lit" ->
                     IF /\ i + Len(re.s) <= Len(s)
                        /\ \A k \in 1..Len(re.s) : s[i + k] = re.s[k]
                     THEN Match(rest, s, i + Len(re.s)) ELSE -1
               [] re.t = "cat" -> Match(re.a \o rest, s, i)
               [] re.t = "alt" ->
                     IF \A k \in 1..Len(re.a) : Elsewhere(re.a[k], s, i)
                     THEN -1 ELSE MatchAlt(re.a, 1, rest, s, i)
               [] re.t = "rep" /\ re.r.t = "cls" ->
                     \* a quantified character class: the longest run with
                     \* which the rest matches
                     LET run == RunLength(re.r, s, i, re.hi)
                         good == {k \in re.lo..run :
                                      Match(rest, s, i + k) # -1}
                     IN  IF good = {} THEN -1
                         ELSE Match(rest, s, i + Max(good))
               [] re.t = "rep" /\ re.r.t # "cls" ->
                     LET again == Rep(re.r, IF re.lo > 0 THEN re.lo - 1 ELSE 0,
                                      IF re.hi > 0 THEN re.hi - 1 ELSE re.hi)
                         \* an iteration that is not required must consume
                         \* something
                         step == IF re.lo > 0 THEN <<re.r, again>>
                                 ELSE <<re.r, [t |-> "moved", from |-> i],
                                        again>>
                         more == IF re.hi = 0 THEN -1
                                 ELSE Match(step \o rest, s, i)
                     IN  IF more # -1 THEN more
                         ELSE IF re.lo > 0 THEN -1 ELSE Match(rest, s, i)
               [] re.t = "moved" ->
                     IF i = re.from THEN -1 ELSE Match(rest, s, i)

MatchAlt(a, k, rest, s, i) ==
    IF k > Len(a) THEN -1
    ELSE LET e == Match(<<a[k]>> \o rest, s, i)
         IN  IF e # -1 THEN e ELSE MatchAlt(a, k + 1, rest, s, i)

(***************************************************************************)
(* String.prototype.matchAll with a global regular expression: the         *)
(* leftmost match at or after lastIndex, then on from its end (one further *)
(* when the match is empty).  A match is [index, text].                    *)
(***************************************************************************)
RECURSIVE matchAllFrom(_, _, _, _)
matchAllFrom(re, s, starts, lastIndex) ==
    LET found == {p \in starts : p >= lastIndex}
    IN  IF found = {} THEN <<>>
        ELSE LET index == Min(found)
                 e == Match(<<re>>, s, index)
             IN  <<[index |-> index, text |-> SubSeq(s, index + 1, e)]>>
                    \o matchAllFrom(re, s, starts,
                                    IF e = index THEN e + 1 ELSE e)

\* starts: the offsets of s at which the expression matches
matchAll(s, re) ==
    matchAllFrom(re, s, {p \in 0..Len(s) : Match(<<re>>, s, p) # -1}, 0)

(***************************************************************************)
(* The built-in patterns of the constructor.                               *)
(***************************************************************************)
\* [一-龯々]
Kanji == Cls((19968..40879) \cup {12293})
\* [\w\.-]
EmailChar == Cls(WordChars \cup {46, 45})
\* [-\s]
DashOrSpace == Cls(WhiteSpace \cup {45})
\* [\s　]
SpaceChar == Cls(WhiteSpace \cup {12288})
\* [^\s、。,\.]
NotSeparator ==
    NCls(WhiteSpace \cup {12289, 12290, 44, 46})

\* /[一-龯々]{2,4}(?:\s+)?[一-龯々]{2,4}(?:さん|様|氏|殿|くん|ちゃん)?/g
nameRegex ==
    Cat(<<Rep(Kanji, 2, 4), Opt(Plus(Cls(WhiteSpace))), Rep(Kanji, 2, 4),
          Opt(Alt(<<Lit(<<12373, 12435>>), Lit(<<27096>>), Lit(<<27663>>),
                    Lit(<<27583>>), Lit(<<12367, 12435>>),
                    Lit(<<12385, 12419, 12435>>)>>))>>)

\* /[\w\.-]+@[\w\.-]+\.\w+/g
emailRegex ==
    Cat(<<Plus(EmailChar), Ch(64), Plus(EmailChar), Ch(46),
          Plus(Cls(WordChars))>>)

\* /0\d{1,4}[-\s]?\d{1,4}[-\s]?\d{4}/g
phoneRegex ==
    Cat(<<Ch(48), Rep(Cls(Digits), 1, 4), Opt(DashOrSpace),
          Rep(Cls(Digits), 1, 4), Opt(DashOrSpace),
          Rep(Cls(Digits), 4, 4)>>)

\* /(東京都|北海道|(?:京都|大阪)府|.{2,3}県)[\s　]*[^\s、。,\.]{2,}/g
addressRegex ==
    Cat(<<Alt(<<Lit(<<26481, 20140, 37117>>), Lit(<<21271, 28023, 36947>>),
                Cat(<<Alt(<<Lit(<<20140, 37117>>), Lit(<<22823, 38442>>)>>),
                      Ch(24220)>>),
                Cat(<<Rep(Dot, 2, 3), Ch(30476)>>)>>),
          Rep(SpaceChar, 0, -1), Rep(NotSeparator, 2, -1)>>)

\* a custom pattern of the settings, new RegExp('東京都', 'g')
cityRegex == Lit(<<26481, 20140, 37117>>)

\* /(?:株式会社|有限会社|合同会社|一般社団法人|公益財団法人)[\s　]*[^\s、。,\.]{2,}
\*  |[^\s、。,\.]{2,}(?:株式会社|有限会社|合同会社)/g
companyRegex ==
    Alt(<<Cat(<<Alt(<<Lit(<<26666, 24335, 20250, 31038>>),
                      Lit(<<26377, 38480, 20250, 31038>>),
                      Lit(<<21512, 21516, 20250, 31038>>),
                      Lit(<<19968, 33324, 31038, 22243, 27861, 20154>>),
                      Lit(<<20844, 30410, 36001, 22243, 27861, 20154>>)>>),
                Rep(SpaceChar, 0, -1), Rep(NotSeparator, 2, -1)>>),
          Cat(<<Rep(NotSeparator, 2, -1),
                Alt(<<Lit(<<26666, 24335, 20250, 31038>>),
                      Lit(<<26377, 38480, 20250, 31038>>),
                      Lit(<<21512, 21516, 20250, 31038>>)>>)>>)>>)

(***************************************************************************)
(* The registry this.patterns: an object whose properties are listed by    *)
(* Object.entries with the array-index keys first, in ascending numeric    *)
(* order, and then the other keys in the order they were created. patterns *)
(* is the sequence of the properties in creation order; a property is      *)
(* [key, regex, label, description].                                       *)
(***************************************************************************)
\* the regular expression objects of the model, by name: a pattern holds a
\* reference to its RegExp object
RegExpOf(name) ==
    CASE name = "nameRegex" -> nameRegex
      [] name = "emailRegex" -> emailRegex
      [] name = "phoneRegex" -> phoneRegex
      [] name = "addressRegex" -> addressRegex
      [] name = "companyRegex" -> companyRegex
      [] name = "cityRegex" -> cityRegex

constructorPatterns ==
    <<[key |-> "name", regex |-> "nameRegex",
       label |-> <<80, 101, 114, 115, 111, 110>>, description |-> "shimei"],
      [key |-> "email", regex |-> "emailRegex",
       label |-> <<69, 109, 97, 105, 108>>, description |-> "mail address"],
      [key |-> "phone", regex |-> "phoneRegex",
       label |-> <<80, 104, 111, 110, 101>>, description |-> "denwa bangou"],
      [key |-> "address", regex |-> "addressRegex",
       label |-> <<76, 111, 99, 97, 116, 105, 111, 110>>,
       description |-> "juusho"],
      [key |-> "company", regex |-> "companyRegex",
       label |-> <<67, 111, 109, 112, 97, 110, 121>>,
       description |-> "kigyoumei"]>>

\* the keys of the model that are canonical array indices, with their values
ArrayIndexKeys == [k \in {"7", "10"} |-> IF k = "7" THEN 7 ELSE 10]
IsArrayIndex(key) == key \in DOMAIN ArrayIndexKeys

keysOf(pats) == {pats[k].key : k \in 1..Len(pats)}

RECURSIVE SortByIndex(_)
SortByIndex(pats) ==
    IF pats = <<>> THEN <<>>
    ELSE LET m == CHOOSE k \in 1..Len(pats) :
                     \A j \in 1..Len(pats) :
                         ArrayIndexKeys[pats[k].key]
                             <= ArrayIndexKeys[pats[j].key]
         IN  <<pats[m]>>
               \o SortByIndex(SubSeq(pats, 1, m - 1)
                                \o SubSeq(pats, m + 1, Len(pats)))

ObjectEntries(pats) ==
    LET isIndex(p) == IsArrayIndex(p.key)
        notIndex(p) == ~IsArrayIndex(p.key)
    IN  SortByIndex(SelectSeq(pats, isIndex)) \o SelectSeq(pats, notIndex)

\* a registration that never looks for the key
pushPattern(pats, key, regex, label, description) ==
    Append(pats, [key |-> key, regex |-> regex, label |-> label,
                  description |-> description])

\* this.patterns[key] = { regex, label, description }
addCustomPattern(pats, key, regex, label, description) ==
    LET p == [key |-> key, regex |-> regex, label |-> label,
              description |-> description]
    IN  IF key \in keysOf(pats)
        THEN [k \in 1..Len(pats) |-> IF pats[k].key = key THEN p ELSE pats[k]]
        ELSE Append(pats, p)

\* delete this.patterns[key]
removePattern(pats, key) ==
    LET keep(p) == p.key # key IN SelectSeq(pats, keep)

\* getAvailablePatterns(): Object.entries(this.patterns).map(...)
getAvailablePatterns(pats) ==
    [k \in 1..Len(pats) |->
         [key |-> ObjectEntries(pats)[k].key,
          label |-> ObjectEntries(pats)[k].label,
          description |-> ObjectEntries(pats)[k].description]]

(***************************************************************************)
(* A Map in insertion order: a sequence of <<key, value>> pairs.           *)
(***************************************************************************)
MapHas(m, k) == \E j \in 1..Len(m) : m[j][1] = k
MapGet(m, k) == m[CHOOSE j \in 1..Len(m) : m[j][1] = k][2]
MapSet(m, k, v) ==
    IF MapHas(m, k)
    THEN [j \in 1..Len(m) |-> IF m[j][1] = k THEN <<k, v>> ELSE m[j]]
    ELSE Append(m, <<k, v>>)

(***************************************************************************)
(* mask                                                                    *)
(***************************************************************************)
\* enabledPatterns is null or an array of keys
Null == [isNull |-> TRUE, list |-> <<>>]
Keys(list) == [isNull |-> FALSE, list |-> list]
includes(list, key) == \E j \in 1..Len(list) : list[j] = key

Reverse(s) == [k \in 1..Len(s) |-> s[Len(s) + 1 - k]]

\* String.fromCharCode
\* NaN, as a number that no count and no character code is
NaN == 0 - 1

\* a + b on numbers
NumberAdd(a, b) == IF a = NaN \/ b = NaN THEN NaN ELSE a + b

\* String.fromCharCode(n): ToUint16 of NaN is 0
fromCharCode(n) == IF n = NaN THEN 0 ELSE n % 65536

\* `[${patternConfig.label}_${String.fromCharCode(64 + n)}]`
maskLabelOf(label, n) ==
    <<91>> \o label \o <<95, fromCharCode(NumberAdd(64, n))>> \o <<93>>

\* originalText.startsWith('[') && originalText.endsWith(']')
isMasked(originalText) ==
    /\ Len(originalText) > 0
    /\ originalText[1] = 91
    /\ originalText[Len(originalText)] = 93

\* a pass that starts from the counters and the table of the pass before
keepPass(this) ==
    [counter |-> this.counter, mappingTable |-> this.mappingTable]

\* this.counter = {}; this.mappingTable = new Map(): the fields of the
\* engine as a pass starts
resetPass(this) == [counter |-> <<>>, mappingTable |-> <<>>]

\* String.prototype.trim leaves nothing
isBlank(text) == \A k \in 1..Len(text) : text[k] \in WhiteSpace

\* !text, text being a string
notText(text) == text = <<>>

(***************************************************************************)
(* An object made by {} (this.counter, stats): a key the object does not   *)
(* own is looked up in Object.prototype, where the names of                *)
(* ObjectPrototype are those of functions.  A function is truthy, and      *)
(* ToNumber of a function is NaN.                                          *)
(***************************************************************************)
\* the function properties of Object.prototype
ObjectPrototype ==
    {"constructor", "hasOwnProperty", "isPrototypeOf",
     "propertyIsEnumerable", "toLocaleString", "toString", "valueOf"}

\* !this.counter[patternKey]
notCounter(counter, patternKey) ==
    IF patternKey \in DOMAIN counter
    THEN counter[patternKey] \in {0, NaN}
    ELSE patternKey \notin ObjectPrototype

\* this.counter[patternKey] = n
setCounter(counter, patternKey, n) ==
    [k \in DOMAIN counter \cup {patternKey} |->
         IF k = patternKey THEN n ELSE counter[k]]

\* the value of this.counter[patternKey] after this.counter[patternKey]++
nextCounter(counter, patternKey) ==
    IF patternKey \in DOMAIN counter
    THEN NumberAdd(counter[patternKey], 1)
    ELSE NaN

\* the body of the inner loop for one match; st is the state of the pass
\* (maskedText, detections, counter, mappingTable)
maskMatch(st, patternKey, patternConfig, match) ==
    LET originalText == match.text
        startIndex == match.index
        endIndex == startIndex + Len(originalText)
        n == nextCounter(st.counter, patternKey)
        maskLabel == maskLabelOf(patternConfig.label, n)
    IN  IF isMasked(originalText) THEN st
        ELSE [maskedText |->
                  SubSeq(st.maskedText, 1, startIndex) \o maskLabel
                      \o SubSeq(st.maskedText, endIndex + 1,
                                Len(st.maskedText)),
              detections |->
                  Append(st.detections,
                         [type |-> patternKey,
                          description |-> patternConfig.description,
                          original |-> originalText,
                          masked |-> maskLabel,
                          startIndex |-> startIndex,
                          endIndex |-> endIndex]),
              counter |-> setCounter(st.counter, patternKey, n),
              mappingTable |-> MapSet(st.mappingTable, maskLabel,
                                      originalText)]

\* the matches from the first to the last
RECURSIVE maskMatchesForward(_, _, _, _, _)
maskMatchesForward(st, patternKey, patternConfig, matches, i) ==
    IF i < 0 THEN st
    ELSE maskMatchesForward(maskMatch(st, patternKey, patternConfig,
                                      matches[Len(matches) - i]),
                            patternKey, patternConfig, matches, i - 1)

\* for (let i = matches.length - 1; i >= 0; i--)
RECURSIVE maskMatches(_, _, _, _, _)
maskMatches(st, patternKey, patternConfig, matches, i) ==
    IF i < 0 THEN st
    ELSE maskMatches(maskMatch(st, patternKey, patternConfig, matches[i + 1]),
                     patternKey, patternConfig, matches, i - 1)

\* the body of the outer loop for one pattern
maskPattern(st, patternConfig) ==
    LET patternKey == patternConfig.key
        matches == matchAll(st.maskedText, RegExpOf(patternConfig.regex))
        counter0 ==
            IF notCounter(st.counter, patternKey)
            THEN setCounter(st.counter, patternKey, 0)
            ELSE st.counter
    IN  IF Len(matches) = 0 THEN st
        ELSE maskMatches([st EXCEPT !.counter = counter0], patternKey,
                         patternConfig, matches, Len(matches) - 1)

RECURSIVE maskPatterns(_, _, _)
maskPatterns(st, patternsToUse, k) ==
    IF k > Len(patternsToUse) THEN st
    ELSE maskPatterns(maskPattern(st, patternsToUse[k]), patternsToUse, k + 1)

\* the listed patterns in the order of the list
patternsAsListed(pats, enabledPatterns) ==
    LET registered(key) == key \in keysOf(pats)
        keys == SelectSeq(enabledPatterns.list, registered)
        byKey(key) == pats[CHOOSE k \in 1..Len(pats) : pats[k].key = key]
    IN  IF enabledPatterns.isNull THEN ObjectEntries(pats)
        ELSE [k \in 1..Len(keys) |-> byKey(keys[k])]

\* the patterns from the last of the registry to the first
patternsLastFirst(pats, enabledPatterns) ==
    LET enabled(p) == includes(enabledPatterns.list, p.key)
    IN  IF enabledPatterns.isNull THEN Reverse(ObjectEntries(pats))
        ELSE Reverse(SelectSeq(ObjectEntries(pats), enabled))

patternsToUseOf(pats, enabledPatterns) ==
    LET enabled(p) == includes(enabledPatterns.list, p.key)
    IN  IF enabledPatterns.isNull THEN ObjectEntries(pats)
        ELSE SelectSeq(ObjectEntries(pats), enabled)

\* mask(text, enabledPatterns) on an engine whose fields are this
\* (patterns, counter, mappingTable): the value returned and the fields
\* counter and mappingTable after the call
mask(this, text, enabledPatterns) ==
    IF notText(text)
    THEN [maskedText |-> <<>>, detections |-> <<>>, mappingTable |-> <<>>,
          thisCounter |-> this.counter,
          thisMappingTable |-> this.mappingTable]
    ELSE LET fresh == resetPass(this)
             st == maskPatterns([maskedText |-> text, detections |-> <<>>,
                                 counter |-> fresh.counter,
                                 mappingTable |-> fresh.mappingTable],
                                patternsToUseOf(this.patterns,
                                                enabledPatterns), 1)
         IN  [maskedText |-> st.maskedText,
              detections |-> Reverse(st.detections),
              mappingTable |-> st.mappingTable,
              thisCounter |-> st.counter,
              thisMappingTable |-> st.mappingTable]

(***************************************************************************)
(* restore                                                                 *)
(***************************************************************************)
\* GetSubstitution of String.prototype.replaceAll with a string pattern
\* (no captures): $$ is '$', $& the matched text, $` the text before the
\* match, $' the text after it; every other character stands for itself
RECURSIVE GetSubstitution(_, _, _, _, _)
GetSubstitution(matched, str, position, replacement, k) ==
    IF k > Len(replacement) THEN <<>>
    ELSE IF replacement[k] = 36 /\ k < Len(replacement)
                /\ replacement[k + 1] \in {36, 38, 96, 39}
         THEN (CASE replacement[k + 1] = 36 -> <<36>>
                 [] replacement[k + 1] = 38 -> matched
                 [] replacement[k + 1] = 96 -> SubSeq(str, 1, position)
                 [] replacement[k + 1] = 39 ->
                        SubSeq(str, position + Len(matched) + 1, Len(str)))
                \o GetSubstitution(matched, str, position, replacement, k + 2)
         ELSE <<replacement[k]>>
                \o GetSubstitution(matched, str, position, replacement, k + 1)

\* a search that takes the first character of searchValue for the whole
isAtFirst(str, searchValue, p) ==
    /\ p + Len(searchValue) <= Len(str)
    /\ Len(searchValue) > 0 => str[p + 1] = searchValue[1]

\* the occurrence test of replaceAll: searchValue is in str at offset p
isAt(str, searchValue, p) ==
    /\ p + Len(searchValue) <= Len(str)
    /\ SubSeq(str, p + 1, p + Len(searchValue)) = searchValue

\* str.replaceAll(searchValue, replaceValue) from offset p on, the text up
\* to endOfLastMatch being already copied: the occurrences are searched
\* from left to right, each after the end of the one before (one further
\* when searchValue is empty)
RECURSIVE replaceAllFrom(_, _, _, _, _)
replaceAllFrom(str, searchValue, replaceValue, p, endOfLastMatch) ==
    LET found == {q \in p..Len(str) : isAt(str, searchValue, q)}
    IN  IF found = {} THEN SubSeq(str, endOfLastMatch + 1, Len(str))
        ELSE LET q == Min(found)
             IN  SubSeq(str, endOfLastMatch + 1, q)
                   \o GetSubstitution(searchValue, str, q, replaceValue, 1)
                   \o replaceAllFrom(str, searchValue, replaceValue,
                                     IF Len(searchValue) = 0 THEN q + 1
                                     ELSE q + Len(searchValue),
                                     q + Len(searchValue))

\* a replacement that searches for searchValue without its last character
replaceAllLoose(str, searchValue, replaceValue) ==
    replaceAllFrom(str,
                   IF Len(searchValue) > 1
                   THEN SubSeq(searchValue, 1, Len(searchValue) - 1)
                   ELSE searchValue,
                   replaceValue, 0, 0)

replaceAll(str, searchValue, replaceValue) ==
    replaceAllFrom(str, searchValue, replaceValue, 0, 0)

RECURSIVE restoreFrom(_, _, _)
restoreFrom(restoredText, mappingTable, k) ==
    IF k > Len(mappingTable) THEN restoredText
    ELSE restoreFrom(replaceAll(restoredText, mappingTable[k][1],
                                mappingTable[k][2]),
                     mappingTable, k + 1)

\* !mappingTable: the argument is null or undefined; a Map is truthy, the
\* empty Map too
notTable(mappingTable) == mappingTable.isNull

\* a restore that returns the empty text, as mask does, when there is
\* nothing to do
restoreOrEmpty(maskedText, mappingTable) ==
    IF notText(maskedText) \/ notTable(mappingTable)
           \/ mappingTable.list = <<>>
    THEN <<>>
    ELSE restoreFrom(maskedText, mappingTable.list, 1)

\* restore(maskedText, mappingTable), mappingTable being Null or Keys(m)
\* for a Map m
restoreOptional(maskedText, mappingTable) ==
    IF notText(maskedText) \/ notTable(mappingTable) THEN maskedText
    ELSE restoreFrom(maskedText, mappingTable.list, 1)

\* restore(maskedText, mappingTable), mappingTable being a Map
restore(maskedText, mappingTable) ==
    restoreOptional(maskedText, Keys(mappingTable))

(***************************************************************************)
(* detect                                                                  *)
(***************************************************************************)
RECURSIVE detectFrom(_, _, _)
detectFrom(text, entries, k) ==
    IF k > Len(entries) THEN <<>>
    ELSE LET matches == matchAll(text, RegExpOf(entries[k].regex))
             samples == [j \in 1..(IF Len(matches) < 3 THEN Len(matches)
                                   ELSE 3) |-> matches[j].text]
         IN  (IF Len(matches) > 0
              THEN <<[key |-> entries[k].key, count |-> Len(matches),
                      description |-> entries[k].description,
                      samples |-> samples]>>
              ELSE <<>>)
               \o detectFrom(text, entries, k + 1)

RECURSIVE SumCounts(_, _)
SumCounts(summary, k) ==
    IF k > Len(summary) THEN 0
    ELSE summary[k].count + SumCounts(summary, k + 1)

\* detect(text): the summary lists the patterns that matched, in the order
\* of Object.entries
detect(pats, text) ==
    IF notText(text)
    THEN [hasPersonalInfo |-> FALSE, summary |-> <<>>]
    ELSE LET summary == detectFrom(text, ObjectEntries(pats), 1)
         IN  [hasPersonalInfo |-> SumCounts(summary, 1) > 0,
              totalDetections |-> SumCounts(summary, 1),
              summary |-> summary]

(***************************************************************************)
(* getStatistics.  stats is an object made by {}, as this.counter is.      *)
(***************************************************************************)
\* stats[detection.type].count++ on a property stats owns
statCount(stats, type) ==
    [k \in 1..Len(stats) |->
         IF stats[k].type = type THEN [stats[k] EXCEPT !.count = @ + 1]
         ELSE stats[k]]

\* the body of the loop for one detection: stats is the sequence of the
\* properties stats owns, in the order they were created. On a name of
\* ObjectPrototype that stats does not own, !stats[detection.type] is false
\* and count++ is made on the function inherited, not on stats.
statDetection(stats, detection) ==
    LET owned == \E k \in 1..Len(stats) : stats[k].type = detection.type
    IN  IF owned THEN statCount(stats, detection.type)
        ELSE IF detection.type \in ObjectPrototype THEN stats
        ELSE statCount(Append(stats,
                              [type |-> detection.type,
                               description |-> detection.description,
                               count |-> 0]),
                       detection.type)

RECURSIVE getStatisticsFrom(_, _, _)
getStatisticsFrom(stats, detections, k) ==
    IF k > Len(detections) THEN stats
    ELSE getStatisticsFrom(statDetection(stats, detections[k]), detections,
                           k + 1)

\* getStatistics(detections)
getStatistics(detections) == getStatisticsFrom(<<>>, detections, 1)

(***************************************************************************)
(* The inputs of the model.  A session text is a concatenation of at most  *)
(* MaxTokens tokens.                                                       *)
(***************************************************************************)
MaxTokens == 2

\* 田中太郎 | a@b.c | ab県$$ | 東京都、 | a space
Tokens ==
    {<<30000, 20013, 22826, 37070>>, <<97, 64, 98, 46, 99>>,
     <<97, 98, 30476, 36, 36>>, <<26481, 20140, 37117, 12289>>, <<32>>}

RECURSIVE Flatten(_)
Flatten(ss) == IF ss = <<>> THEN <<>> ELSE Head(ss) \o Flatten(Tail(ss))

Texts == {Flatten(ts) : ts \in UNION {[1..n -> Tokens] : n \in 0..MaxTokens}}

\* the custom patterns of the settings: a pattern for a city, /東京都/g,
\* that masks with the label Location
CustomPatterns ==
    {[key |-> "city", regex |-> "cityRegex",
      label |-> <<76, 111, 99, 97, 116, 105, 111, 110>>,
      description |-> "city"]}

EnabledLists == {Null}

RemovableKeys == {"city", "unknown"}

(***************************************************************************)
(* The state: the fields of the engine, the session text, and the last     *)
(* calls with what they returned.                                          *)
(***************************************************************************)
VARIABLES
    patterns,       \* this.patterns
    counter,        \* this.counter
    mappingTable,   \* this.mappingTable
    text,           \* the text the session works on
    op,             \* the last call: "new", "mask", "restore" or "detect"
    call,           \* the last mask call: its arguments and the registry
    result,         \* what the last mask call returned
    prev,           \* the mask call before it, when the last call repeated
                    \* it or masked its maskedText again (else NoCall)
    restoreText,    \* the arguments of the last restore call
    restoreTable,
    restored,       \* what the last restore call returned
    detected,       \* what the last detect call returned
    stats,          \* what the last getStatistics call returned
    available,      \* what getAvailablePatterns returned, if it was called
                    \* since the registry last changed
    registryCall,   \* the last call of addCustomPattern or removePattern:
                    \* its arguments and the registry before it
    firstAdded,     \* the keys of the custom rules registered, in the
                    \* order they were first added
    currentSettings, \* the settings page: disabledPatterns, customPatterns
    storage,        \* chrome.storage.sync: disabledPatterns, customPatterns
    pending,        \* the side panel has a loadCustomPatterns to run: at
                    \* its start and after SETTINGS_UPDATED
    loadCall,       \* the last loadCustomPatterns: the registry before it;
                    \* each: no settings were saved while the side panel
                    \* had a loadCustomPatterns to run
    saveCall,       \* the last savePattern, if nothing was done on the
                    \* settings page since: the source in the form and the
                    \* custom patterns of the page before it
    savedMappings,  \* chrome.storage.local: the stored snapshots
    now,            \* the clock of Date.now(), in milliseconds
    handlers,       \* the saveMapping and deleteMapping calls on their way:
                    \* where each one waits, and what it holds
    mappingSelect,  \* the value of the snapshot selector, 0 for ''
    succeeded,      \* the snapshots whose saveMapping reported success
    gone,           \* the snapshots a deleteMapping removed or the cap
                    \* evicted
    mappingOptions, \* the options of the snapshot selector: the ids that
                    \* loadSavedMappings found
    started,        \* the calls of saveMapping and deleteMapping so far
    lastSet,        \* the last write of the stored list: the list it
                    \* replaced, the list its call had read, the list it
                    \* wrote
    maps,           \* the Map objects made so far, each with its entries; a
                    \* reference to a Map is its place in maps
    thisTable,      \* this.mappingTable, a reference to a Map
    returned,       \* the mapping tables the mask calls returned: the
                    \* reference, and the entries at the time of the return
    restoreCall,    \* the last restore call: the reference it was given,
                    \* the entries and the registry as the call started
    originalText,   \* originalText.value of the side panel
    shown,          \* maskedText.value and currentMappingTable
    timers,         \* the timers set and not yet run or cleared: the id,
                    \* and the time left before the timer is due
    debounceTimer,  \* the id of the last timer set, 0 for null
    sinceInput,     \* the time since the last input event, up to the delay
    loads,          \* the calls of loadCustomPatterns that wait for
                    \* chrome.storage.sync.get
    inbox,          \* a SETTINGS_UPDATED message is on its way
    pass,           \* the last mask pass of performMasking: whether it is
                    \* between its start and its end, its text, its rules,
                    \* the rules done, and the registry as it started
    burst,          \* the input events of the burst going on and the runs
                    \* of performMasking that timers made in it
    closed,         \* the burst before it: its runs, and whether the timer
                    \* of its last event was due and was cleared
    lastEvent,      \* the last handler that ran
    lastRun         \* the last run of performMasking that a timer made:
                    \* the time since the last input event as it started

vars == <<patterns, counter, mappingTable, text, op, call, result, prev,
          restoreText, restoreTable, restored, detected, stats, available,
          registryCall, firstAdded, currentSettings, storage, pending,
          loadCall, saveCall, savedMappings, now, handlers, mappingSelect,
          succeeded, gone, mappingOptions, started, lastSet, maps, thisTable,
          returned, restoreCall, originalText, shown, timers, debounceTimer,
          sinceInput, loads, inbox, pass, burst, closed, lastEvent, lastRun>>

\* the settings page and the storage
settings == <<currentSettings, storage, pending, loadCall, saveCall>>

\* the stored snapshots of the side panel
snapshots == <<savedMappings, now, handlers, mappingSelect, succeeded, gone,
               mappingOptions, started, lastSet>>

\* the Map objects of the engine and of its callers
objects == <<maps, thisTable, returned, restoreCall>>

\* the text fields, the timers and the messages of the side panel
panel == <<originalText, shown, timers, debounceTimer, sinceInput, loads,
           inbox, pass, burst, closed, lastEvent, lastRun>>

\* the side panel around the engine
sidePanel == <<snapshots, objects, panel>>

\* what the calls of mask, restore and detect leave alone
others == <<stats, available, registryCall, firstAdded, settings, sidePanel>>

NoResult == [maskedText |-> <<>>, detections |-> <<>>, mappingTable |-> <<>>]
NoCall == [called |-> FALSE, text |-> <<>>, enabledPatterns |-> Null,
           patterns |-> <<>>, result |-> NoResult, between |-> FALSE]
NoDetect == [hasPersonalInfo |-> FALSE, summary |-> <<>>]

this == [patterns |-> patterns, counter |-> counter,
         mappingTable |-> mappingTable]

NoList == [listed |-> FALSE, list |-> <<>>]
NoRegistryCall ==
    [name |-> "none", key |-> "", regex |-> "", label |-> <<>>,
     description |-> "", before |-> <<>>]

\* let currentSettings = { disabledPatterns: [], customPatterns: [], ... }
NoSettings == [disabledPatterns |-> <<>>, customPatterns |-> <<>>]
NoLoadCall == [called |-> FALSE, before |-> <<>>, each |-> TRUE]
NoForm == [key |-> "", label |-> <<>>, regex |-> "", description |-> ""]
NoSaveCall == [called |-> FALSE, regex |-> "", before |-> <<>>]

\* the calls of saveMapping and deleteMapping that can be on their way at
\* the same time
MaxCalls == 2
Calls == 1..MaxCalls

\* a call that is not on its way
NoHandler == [pc |-> "idle", name |-> "none", selectedId |-> 0,
              newMapping |-> 0, updatedMappings |-> <<>>, read |-> <<>>]
NoHandlers == [c \in Calls |-> NoHandler]
NoSet == [name |-> "none", before |-> <<>>, read |-> <<>>, written |-> <<>>]
NoRestoreCall == [ref |-> 0, table |-> <<>>, patterns |-> <<>>]

\* the side panel before anything was typed
NoShown == [maskedText |-> <<>>, mappingTable |-> <<>>]
NoPass == [active |-> FALSE, text |-> <<>>, registry |-> <<>>,
           rules |-> <<>>, k |-> 0,
           st |-> [maskedText |-> <<>>, detections |-> <<>>,
                   counter |-> <<>>, mappingTable |-> <<>>]]
NoBurst == [events |-> 0, runs |-> 0]
NoClosed == [any |-> FALSE, runs |-> 0, cancelled |-> FALSE]
NoRun == [ran |-> FALSE, since |-> 0]

\* nothing was asked of the engine but mask, restore and detect, and the
\* settings are those of the installation
InitOthers ==
    /\ stats = <<>>
    /\ available = NoList
    /\ registryCall = NoRegistryCall
    /\ firstAdded = <<>>
    /\ currentSettings = NoSettings
    /\ storage = NoSettings
    /\ pending = TRUE
    /\ loadCall = NoLoadCall
    /\ saveCall = NoSaveCall
    /\ savedMappings = <<>>
    /\ now = 0
    /\ handlers = NoHandlers
    /\ mappingSelect = 0
    /\ succeeded = {}
    /\ gone = {}
    /\ mappingOptions = {}
    /\ started = 0
    /\ lastSet = NoSet
    /\ maps = <<<<>>>>
    /\ thisTable = 1
    /\ returned = <<>>
    /\ restoreCall = NoRestoreCall
    /\ originalText = <<>>
    /\ shown = NoShown
    /\ timers = {}
    /\ debounceTimer = 0
    /\ sinceInput = 0
    /\ loads = 0
    /\ inbox = FALSE
    /\ pass = NoPass
    /\ burst = NoBurst
    /\ closed = NoClosed
    /\ lastEvent = "init"
    /\ lastRun = NoRun

Init ==
    /\ patterns = constructorPatterns
    /\ counter = <<>>
    /\ mappingTable = <<>>
    /\ text \in Texts
    /\ op = "new"
    /\ call = NoCall
    /\ result = NoResult
    /\ prev = NoCall
    /\ restoreText = <<>>
    /\ restoreTable = <<>>
    /\ restored = <<>>
    /\ detected = NoDetect
    /\ InitOthers

\* maskingEngine.mask(t, enabledPatterns), t being the session text or the
\* masked text the last call returned for it
MaskOn(t, enabledPatterns) ==
    LET r == mask(this, t, enabledPatterns)
        again == call.called /\ call.text = text /\ t = result.maskedText
        same == /\ call.called /\ call.text = t
                /\ call.enabledPatterns = enabledPatterns
                /\ call.patterns = patterns
        \* between: the call repeats the mask call before it, and restore
        \* or detect was called between the two
        c == [called |-> TRUE, text |-> t,
              enabledPatterns |-> enabledPatterns, patterns |-> patterns,
              result |-> [maskedText |-> r.maskedText,
                          detections |-> r.detections,
                          mappingTable |-> r.mappingTable],
              between |-> same /\ op # "mask"]
    IN  /\ op' = "mask"
        /\ call' = c
        /\ result' = c.result
        /\ prev' = IF again \/ same
                   THEN [call EXCEPT !.between = FALSE] ELSE NoCall
        /\ counter' = r.thisCounter
        /\ mappingTable' = r.thisMappingTable
        /\ restoreText' = <<>>
        /\ restoreTable' = <<>>
        /\ restored' = <<>>
        /\ detected' = NoDetect
        /\ UNCHANGED <<patterns, text>>
        /\ UNCHANGED others

Mask ==
    \E enabledPatterns \in EnabledLists :
        \E t \in {text} \cup (IF call.called /\ call.text = text
                              THEN {result.maskedText} ELSE {}) :
            MaskOn(t, enabledPatterns)

\* maskingEngine.restore(maskedText.value, currentMappingTable)
Restore ==
    /\ call.called
    /\ op' = "restore"
    /\ restoreText' = result.maskedText
    /\ restoreTable' = result.mappingTable
    /\ restored' = restore(result.maskedText, result.mappingTable)
    /\ detected' = NoDetect
    /\ UNCHANGED <<patterns, counter, mappingTable, text, call, result, prev>>
    /\ UNCHANGED others

Detect ==
    \E t \in {text} :
        /\ op' = "detect"
        /\ detected' = detect(patterns, t)
        /\ restoreText' = <<>>
        /\ restoreTable' = <<>>
        /\ restored' = <<>>
        /\ UNCHANGED <<patterns, counter, mappingTable, text, call, result,
                       prev>>
        /\ UNCHANGED others

AddCustomPattern ==
    \E p \in CustomPatterns :
        /\ patterns' = addCustomPattern(patterns, p.key, p.regex, p.label,
                                        p.description)
        /\ UNCHANGED <<counter, mappingTable, text, op, call, result, prev,
                       restoreText, restoreTable, restored, detected>>
        /\ UNCHANGED others

RemovePattern ==
    \E key \in RemovableKeys :
        /\ patterns' = removePattern(patterns, key)
        /\ UNCHANGED <<counter, mappingTable, text, op, call, result, prev,
                       restoreText, restoreTable, restored, detected>>
        /\ UNCHANGED others

Next == Mask \/ Restore \/ Detect \/ AddCustomPattern \/ RemovePattern

Spec == Init /\ [][Next]_vars

(***************************************************************************)
(* restore on its own: a masked text and a mapping table of the caller's,  *)
(* as the history restore of the side panel passes them in.                *)
(***************************************************************************)
MaxRestoreLen == 3
MaxEntries == 2

\* [ A ] $
RestoreAlphabet == {91, 65, 93, 36}

RestoreTexts ==
    UNION {[1..n -> RestoreAlphabet] : n \in 0..MaxRestoreLen}

\* the placeholders [A] and A; the originals A, [A], $$, $& and ]$
RestoreKeys == {<<91, 65, 93>>, <<65>>}
RestoreValues ==
    {<<65>>, <<91, 65, 93>>, <<36, 36>>, <<36, 38>>, <<93, 36>>}

\* the Maps of at most MaxEntries entries: no key twice
RestoreTables ==
    {m \in UNION {[1..n -> RestoreKeys \X RestoreValues] :
                      n \in 0..MaxEntries} :
        \A i, j \in 1..Len(m) : i # j => m[i][1] # m[j][1]}

InitRestore ==
    /\ patterns = constructorPatterns
    /\ counter = <<>>
    /\ mappingTable = <<>>
    /\ text = <<>>
    /\ op = "new"
    /\ call = NoCall
    /\ result = NoResult
    /\ prev = NoCall
    /\ restoreText \in RestoreTexts
    /\ restoreTable \in RestoreTables
    /\ restored = <<>>
    /\ detected = NoDetect
    /\ InitOthers

\* maskingEngine.restore(restoreText, restoreTable)
RestoreCall ==
    /\ op = "new"
    /\ op' = "restore"
    /\ restored' = restore(restoreText, restoreTable)
    /\ UNCHANGED <<patterns, counter, mappingTable, text, call, result, prev,
                   restoreText, restoreTable, detected>>
    /\ UNCHANGED others

NextRestore == RestoreCall

SpecRestore == InitRestore /\ [][NextRestore]_vars

(***************************************************************************)
(* getStatistics on the detections of a mask result: the detections are    *)
(* those of at most MaxDetections matches of the rules of StatKeys.        *)
(***************************************************************************)
MaxDetections == 4

\* two built-in rules and a custom rule of the settings
StatKeys == {"name", "email", "constructor"}

StatDetection(key) ==
    [type |-> key, description |-> key, original |-> <<97>>,
     masked |-> <<91, 93>>, startIndex |-> 0, endIndex |-> 1]

StatDetections ==
    UNION {[1..n -> {StatDetection(key) : key \in StatKeys}] :
               n \in 0..MaxDetections}

InitStatistics ==
    /\ patterns = constructorPatterns
    /\ counter = <<>>
    /\ mappingTable = <<>>
    /\ text = <<>>
    /\ op = "new"
    /\ call = NoCall
    /\ result \in {[NoResult EXCEPT !.detections = ds] :
                       ds \in StatDetections}
    /\ prev = NoCall
    /\ restoreText = <<>>
    /\ restoreTable = <<>>
    /\ restored = <<>>
    /\ detected = NoDetect
    /\ InitOthers

\* maskingEngine.getStatistics(result.detections)
GetStatistics ==
    /\ op = "new"
    /\ op' = "statistics"
    /\ stats' = getStatistics(result.detections)
    /\ UNCHANGED <<patterns, counter, mappingTable, text, call, result, prev,
                   restoreText, restoreTable, restored, detected>>
    /\ UNCHANGED <<available, registryCall, firstAdded, settings, sidePanel>>

NextStatistics == GetStatistics

SpecStatistics == InitStatistics /\ [][NextStatistics]_vars

(***************************************************************************)
(* mask with custom patterns of the settings under keys of all kinds: the  *)
(* name of a property of Object.prototype and an array index among them.   *)
(***************************************************************************)
\* 東京都、 and a@b.c
KeyTexts ==
    {<<26481, 20140, 37117, 12289>>,
     <<26481, 20140, 37117, 12289, 26481, 20140, 37117, 12289>>,
     <<97, 64, 98, 46, 99, 26481, 20140, 37117, 12289>>}

KeyedPatterns ==
    {[key |-> k, regex |-> "cityRegex", label |-> <<67, 105, 116, 121>>,
      description |-> "city"] : k \in {"city", "constructor", "7"}}

InitKeys ==
    /\ patterns = constructorPatterns
    /\ counter = <<>>
    /\ mappingTable = <<>>
    /\ text \in KeyTexts
    /\ op = "new"
    /\ call = NoCall
    /\ result = NoResult
    /\ prev = NoCall
    /\ restoreText = <<>>
    /\ restoreTable = <<>>
    /\ restored = <<>>
    /\ detected = NoDetect
    /\ InitOthers

\* maskingEngine.addCustomPattern(pattern.key, regex, pattern.label,
\* pattern.description) for a pattern of the settings
AddKeyedPattern ==
    \E p \in KeyedPatterns :
        /\ patterns' = addCustomPattern(patterns, p.key, p.regex, p.label,
                                        p.description)
        /\ UNCHANGED <<counter, mappingTable, text, op, call, result, prev,
                       restoreText, restoreTable, restored, detected>>
        /\ UNCHANGED others

\* maskingEngine.mask(text)
MaskText == MaskOn(text, Null)

NextKeys == AddKeyedPattern \/ MaskText

SpecKeys == InitKeys /\ [][NextKeys]_vars

(***************************************************************************)
(* The registry under addCustomPattern and removePattern with keys of all  *)
(* kinds: the key of a built-in rule, the key of a rule not registered, an *)
(* array index, the name of a property of Object.prototype.                *)
(***************************************************************************)
BuiltInKeys == <<"name", "email", "phone", "address", "company">>

RegistryPatterns ==
    {[key |-> k, regex |-> "cityRegex", label |-> <<67, 105, 116, 121>>,
      description |-> "city"] : k \in {"email", "city", "7", "constructor"}}
    \cup {[key |-> "city", regex |-> "emailRegex",
           label |-> <<76, 111, 99, 97, 116, 105, 111, 110>>,
           description |-> "mail address"]}

RegistryKeys == {"name", "city", "7", "unknown"}

InitRegistry ==
    /\ patterns = constructorPatterns
    /\ counter = <<>>
    /\ mappingTable = <<>>
    /\ text = <<>>
    /\ op = "new"
    /\ call = NoCall
    /\ result = NoResult
    /\ prev = NoCall
    /\ restoreText = <<>>
    /\ restoreTable = <<>>
    /\ restored = <<>>
    /\ detected = NoDetect
    /\ InitOthers

\* addCustomPattern(key, regex, label, description)
AddPattern ==
    \E p \in RegistryPatterns :
        /\ patterns' = addCustomPattern(patterns, p.key, p.regex, p.label,
                                        p.description)
        /\ registryCall' = [name |-> "add", key |-> p.key, regex |-> p.regex,
                            label |-> p.label,
                            description |-> p.description,
                            before |-> patterns]
        /\ firstAdded' = IF includes(BuiltInKeys, p.key)
                            \/ includes(firstAdded, p.key)
                         THEN firstAdded
                         ELSE Append(firstAdded, p.key)
        /\ available' = NoList
        /\ UNCHANGED <<counter, mappingTable, text, op, call, result, prev,
                       restoreText, restoreTable, restored, detected, stats,
                       settings, sidePanel>>

\* removePattern(key)
RemoveKey ==
    \E key \in RegistryKeys :
        /\ patterns' = removePattern(patterns, key)
        /\ registryCall' = [NoRegistryCall EXCEPT !.name = "remove",
                                                  !.key = key,
                                                  !.before = patterns]
        /\ firstAdded' = LET keep(k) == k # key
                         IN  SelectSeq(firstAdded, keep)
        /\ available' = NoList
        /\ UNCHANGED <<counter, mappingTable, text, op, call, result, prev,
                       restoreText, restoreTable, restored, detected, stats,
                       settings, sidePanel>>

\* getAvailablePatterns()
GetAvailablePatterns ==
    /\ available' = [listed |-> TRUE, list |-> getAvailablePatterns(patterns)]
    /\ UNCHANGED <<patterns, counter, mappingTable, text, op, call, result,
                   prev, restoreText, restoreTable, restored, detected,
                   stats, registryCall, firstAdded, settings, sidePanel>>

NextRegistry == AddPattern \/ RemoveKey \/ GetAvailablePatterns

SpecRegistry == InitRegistry /\ [][NextRegistry]_vars

(***************************************************************************)
(* The settings.  The settings page keeps currentSettings, writes it to    *)
(* chrome.storage.sync on save, and the side panel, on SETTINGS_UPDATED    *)
(* and at its start, runs loadCustomPatterns on its engine.  A stored      *)
(* custom pattern is [key, label, regex, description], regex being the     *)
(* source of a regular expression: the sources that compile are written by *)
(* the name of the RegExp they compile to.                                 *)
(***************************************************************************)
MaxStored == 2

\* the sources new RegExp compiles; "(" is a source it throws on
RegExpSources == {"cityRegex"}

\* new RegExp(source) and new RegExp(source, 'g') do not throw
compiles(source) == source \in RegExpSources

\* a registration that does not compile the source first
loadUnchecked(pats, pattern) ==
    addCustomPattern(pats, pattern.key, pattern.regex, pattern.label,
                     pattern.description)

\* the body of the loop over customPatterns: try { new RegExp; add } catch
loadPattern(pats, pattern) ==
    IF compiles(pattern.regex)
    THEN addCustomPattern(pats, pattern.key, pattern.regex, pattern.label,
                          pattern.description)
    ELSE pats

\* for (const patternKey of disabledPatterns) removePattern(patternKey)
RECURSIVE removePatterns(_, _, _)
removePatterns(pats, disabledPatterns, k) ==
    IF k > Len(disabledPatterns) THEN pats
    ELSE removePatterns(removePattern(pats, disabledPatterns[k]),
                        disabledPatterns, k + 1)

\* for (const pattern of customPatterns) ...
RECURSIVE loadPatterns(_, _, _)
loadPatterns(pats, customPatterns, k) ==
    IF k > Len(customPatterns) THEN pats
    ELSE loadPatterns(loadPattern(pats, customPatterns[k]), customPatterns,
                      k + 1)

\* loadCustomPatterns() on the registry pats, stored being what
\* chrome.storage.sync.get returns
loadCustomPatterns(pats, stored) ==
    loadPatterns(removePatterns(pats, stored.disabledPatterns, 1),
                 stored.customPatterns, 1)

\* savePattern() with the form (trimmed) and editingPatternIndex: the
\* custom patterns of the page after it
savePattern(customPatterns, form, editingPatternIndex) ==
    LET duplicate == \E i \in 1..Len(customPatterns) :
                         /\ customPatterns[i].key = form.key
                         /\ i - 1 # editingPatternIndex
    IN  IF form.key = "" \/ form.label = <<>> \/ form.regex = ""
        THEN customPatterns
        ELSE IF ~compiles(form.regex) THEN customPatterns
        ELSE IF duplicate THEN customPatterns
        ELSE IF editingPatternIndex >= 0
             THEN [customPatterns EXCEPT ![editingPatternIndex + 1] = form]
             ELSE Append(customPatterns, form)

\* currentSettings.customPatterns.splice(index, 1)
splice(customPatterns, index) ==
    SubSeq(customPatterns, 1, index)
        \o SubSeq(customPatterns, index + 2, Len(customPatterns))

\* what is typed in the form or found in an imported file
StoredPatterns ==
    {[key |-> "city", label |-> <<67, 105, 116, 121>>,
      regex |-> "cityRegex", description |-> "city"],
     [key |-> "bad", label |-> <<66, 97, 100>>,
      regex |-> "(", description |-> "bad"]}

Forms == StoredPatterns \cup {NoForm}

\* the built-in rules whose checkbox is found unchecked
DisabledLists == {<<>>, <<"name">>}

InitSettings ==
    /\ patterns = constructorPatterns
    /\ counter = <<>>
    /\ mappingTable = <<>>
    /\ text = <<>>
    /\ op = "new"
    /\ call = NoCall
    /\ result = NoResult
    /\ prev = NoCall
    /\ restoreText = <<>>
    /\ restoreTable = <<>>
    /\ restored = <<>>
    /\ detected = NoDetect
    /\ InitOthers

engine == <<patterns, counter, mappingTable, text, op, call, result, prev,
            restoreText, restoreTable, restored, detected, stats, available,
            registryCall, firstAdded>>

\* savePattern() of the settings page, on a new pattern or on the pattern
\* at the index edited
SavePattern ==
    \E form \in Forms :
        \E index \in (0 - 1)..(Len(currentSettings.customPatterns) - 1) :
            /\ index = 0 - 1
                   => Len(currentSettings.customPatterns) < MaxStored
            /\ currentSettings' =
                   [currentSettings EXCEPT !.customPatterns =
                        savePattern(@, form, index)]
            /\ saveCall' = [called |-> TRUE, regex |-> form.regex,
                            before |-> currentSettings.customPatterns]
            /\ UNCHANGED <<storage, pending, loadCall>>
            /\ UNCHANGED engine
            /\ UNCHANGED sidePanel

\* deletePattern(index), confirmed
DeletePattern ==
    \E index \in 0..(Len(currentSettings.customPatterns) - 1) :
        /\ currentSettings' =
               [currentSettings EXCEPT !.customPatterns = splice(@, index)]
        /\ saveCall' = NoSaveCall
        /\ UNCHANGED <<storage, pending, loadCall>>
        /\ UNCHANGED engine
        /\ UNCHANGED sidePanel

\* handleImport(event) of a file with an array customPatterns
HandleImport ==
    \E imported \in UNION {[1..n -> StoredPatterns] : n \in 0..MaxStored} :
        /\ currentSettings' =
               [currentSettings EXCEPT !.customPatterns = imported]
        /\ saveCall' = NoSaveCall
        /\ UNCHANGED <<storage, pending, loadCall>>
        /\ UNCHANGED engine
        /\ UNCHANGED sidePanel

\* saveSettings(): the checkboxes are read, currentSettings is stored and
\* the side panel is sent SETTINGS_UPDATED
SaveSettings ==
    \E disabledPatterns \in DisabledLists :
        /\ currentSettings' =
               [currentSettings EXCEPT !.disabledPatterns = disabledPatterns]
        /\ storage' = currentSettings'
        /\ pending' = TRUE
        /\ saveCall' = NoSaveCall
        /\ loadCall' = [loadCall EXCEPT !.each = @ /\ ~pending]
        /\ UNCHANGED engine
        /\ UNCHANGED sidePanel

\* loadCustomPatterns() of the side panel
LoadCustomPatterns ==
    /\ pending
    /\ pending' = FALSE
    /\ patterns' = loadCustomPatterns(patterns, storage)
    /\ loadCall' = [loadCall EXCEPT !.called = TRUE, !.before = patterns]
    /\ UNCHANGED <<currentSettings, storage, saveCall>>
    /\ UNCHANGED <<counter, mappingTable, text, op, call, result, prev,
                   restoreText, restoreTable, restored, detected, stats,
                   available, registryCall, firstAdded, sidePanel>>

NextSettings ==
    \/ SavePattern
    \/ DeletePattern
    \/ HandleImport
    \/ SaveSettings
    \/ LoadCustomPatterns

SpecSettings == InitSettings /\ [][NextSettings]_vars

(***************************************************************************)
(* The stored snapshots of the side panel: saveMapping, deleteMapping and  *)
(* the selector, each call cut at its awaits.                              *)
(***************************************************************************)
\* slice(0, 10): the snapshots kept
MaxSnapshots == 10

\* the last reading of the clock
MaxNow == 12

\* the calls of saveMapping and deleteMapping of a session
MaxStarted == 3

\* a snapshot made at the reading t of the clock: its id is
\* Date.now().toString(), the decimal digits of t, which are told apart
\* exactly as the numbers are; its name, its mapping table and its itemCount
\* play no part in the list
newMappingAt(t) == [id |-> t, createdAt |-> t]

\* [newMapping, ...savedMappings] without the slice
saveAll(newMapping, saved) == <<newMapping>> \o saved

\* [newMapping, ...savedMappings].slice(0, 10)
saveMappings(newMapping, saved) ==
    SubSeq(<<newMapping>> \o saved, 1, Min({MaxSnapshots, Len(saved) + 1}))

\* savedMappings.filter(m => m.id !== selectedId)
deleteMappings(saved, selectedId) ==
    LET keep(m) == m.id # selectedId IN SelectSeq(saved, keep)

\* the ids of a list of snapshots
idsOf(saved) == {saved[i].id : i \in 1..Len(saved)}

\* mappingSelect.value = id: the selector takes the value of one of its
\* options only
selectValue(options, id) == IF id \in options THEN id ELSE 0

\* the list stored by n saves at the readings 1..n of the clock
StoredAt(n) == [i \in 1..n |-> newMappingAt(n + 1 - i)]
StoredLists == {StoredAt(0), StoredAt(MaxSnapshots - 1),
                StoredAt(MaxSnapshots)}

InitSnapshots ==
    /\ patterns = constructorPatterns
    /\ counter = <<>>
    /\ mappingTable = <<>>
    /\ text = <<>>
    /\ op = "new"
    /\ call = NoCall
    /\ result = NoResult
    /\ prev = NoCall
    /\ restoreText = <<>>
    /\ restoreTable = <<>>
    /\ restored = <<>>
    /\ detected = NoDetect
    /\ stats = <<>>
    /\ available = NoList
    /\ registryCall = NoRegistryCall
    /\ firstAdded = <<>>
    /\ currentSettings = NoSettings
    /\ storage = NoSettings
    /\ pending = TRUE
    /\ loadCall = NoLoadCall
    /\ saveCall = NoSaveCall
    /\ savedMappings \in StoredLists
    /\ now = MaxSnapshots + 1
    /\ handlers = NoHandlers
    /\ mappingSelect = 0
    /\ succeeded = idsOf(savedMappings)
    /\ gone = {}
    /\ mappingOptions = idsOf(savedMappings)
    /\ started = 0
    /\ lastSet = NoSet
    /\ maps = <<<<>>>>
    /\ thisTable = 1
    /\ returned = <<>>
    /\ restoreCall = NoRestoreCall
    /\ originalText = <<>>
    /\ shown = NoShown
    /\ timers = {}
    /\ debounceTimer = 0
    /\ sinceInput = 0
    /\ loads = 0
    /\ inbox = FALSE
    /\ pass = NoPass
    /\ burst = NoBurst
    /\ closed = NoClosed
    /\ lastEvent = "init"
    /\ lastRun = NoRun

\* what the stored snapshots leave alone
aroundSnapshots == <<engine, settings, objects, panel>>

\* a millisecond goes by
Tick ==
    /\ now < MaxNow
    /\ now' = now + 1
    /\ UNCHANGED <<savedMappings, handlers, mappingSelect, succeeded, gone,
                   mappingOptions, started, lastSet>>
    /\ UNCHANGED aroundSnapshots

\* the user picks the first or the last option of the selector
SelectMapping ==
    /\ \E id \in mappingOptions :
           /\ \/ \A other \in mappingOptions : other <= id
              \/ \A other \in mappingOptions : other >= id
           /\ mappingSelect' = id
    /\ UNCHANGED <<savedMappings, now, handlers, succeeded, gone,
                   mappingOptions, started, lastSet>>
    /\ UNCHANGED aroundSnapshots

\* saveMapping() with a mapping table that is not empty, up to
\* await chrome.storage.local.get('savedMappings')
SaveMappingStart(c) ==
    /\ handlers[c].pc = "idle"
    /\ started < MaxStarted
    /\ started' = started + 1
    /\ handlers' = [handlers EXCEPT ![c] =
                        [NoHandler EXCEPT !.pc = "get", !.name = "save"]]
    /\ UNCHANGED <<savedMappings, now, mappingSelect, succeeded, gone,
                   mappingOptions, lastSet>>
    /\ UNCHANGED aroundSnapshots

\* deleteMapping() with a snapshot selected, up to
\* await chrome.storage.local.get('savedMappings')
DeleteMappingStart(c) ==
    /\ handlers[c].pc = "idle"
    /\ started < MaxStarted
    /\ started' = started + 1
    /\ mappingSelect # 0
    /\ handlers' = [handlers EXCEPT ![c] =
                        [NoHandler EXCEPT !.pc = "get", !.name = "delete",
                                          !.selectedId = mappingSelect]]
    /\ UNCHANGED <<savedMappings, now, mappingSelect, succeeded, gone,
                   mappingOptions, lastSet>>
    /\ UNCHANGED aroundSnapshots

\* saveMapping() from the stored list it is given up to
\* await chrome.storage.local.set({ savedMappings: updatedMappings })
SaveMappingGot(c) ==
    /\ handlers[c].pc = "get"
    /\ handlers[c].name = "save"
    /\ LET newMapping == newMappingAt(now) IN
        handlers' = [handlers EXCEPT ![c] =
            [@ EXCEPT !.pc = "set", !.newMapping = newMapping.id,
                      !.read = savedMappings,
                      !.updatedMappings =
                          saveMappings(newMapping, savedMappings)]]
    /\ UNCHANGED <<savedMappings, now, mappingSelect, succeeded, gone,
                   mappingOptions, started, lastSet>>
    /\ UNCHANGED aroundSnapshots

\* deleteMapping() from the stored list it is given up to
\* await chrome.storage.local.set({ savedMappings: updatedMappings })
DeleteMappingGot(c) ==
    /\ handlers[c].pc = "get"
    /\ handlers[c].name = "delete"
    /\ handlers' = [handlers EXCEPT ![c] =
           [@ EXCEPT !.pc = "set", !.read = savedMappings,
                     !.updatedMappings =
                         deleteMappings(savedMappings,
                                        handlers[c].selectedId)]]
    /\ UNCHANGED <<savedMappings, now, mappingSelect, succeeded, gone,
                   mappingOptions, started, lastSet>>
    /\ UNCHANGED aroundSnapshots

\* chrome.storage.local.set of a call writes its list, and the call goes on
\* to await loadSavedMappings()
StorageSet(c) ==
    /\ handlers[c].pc = "set"
    /\ savedMappings' = handlers[c].updatedMappings
    /\ lastSet' = [name |-> handlers[c].name, before |-> savedMappings,
                   read |-> handlers[c].read,
                   written |-> handlers[c].updatedMappings]
    /\ handlers' = [handlers EXCEPT ![c].pc = "load"]
    /\ UNCHANGED <<now, mappingSelect, succeeded, gone, mappingOptions,
                   started>>
    /\ UNCHANGED aroundSnapshots

\* loadSavedMappings() fills the selector, then saveMapping() selects the
\* new snapshot and reports the success
SaveMappingDone(c) ==
    /\ handlers[c].pc = "load"
    /\ handlers[c].name = "save"
    /\ mappingOptions' = idsOf(savedMappings)
    /\ mappingSelect' = selectValue(mappingOptions', handlers[c].newMapping)
    /\ succeeded' = succeeded \cup {handlers[c].newMapping}
    /\ gone' = gone \cup (idsOf(handlers[c].read)
                              \ idsOf(handlers[c].updatedMappings))
    /\ handlers' = [handlers EXCEPT ![c] = NoHandler]
    /\ UNCHANGED <<savedMappings, now, started, lastSet>>
    /\ UNCHANGED aroundSnapshots

\* loadSavedMappings() fills the selector, then deleteMapping() clears the
\* selection and reports the deletion
DeleteMappingDone(c) ==
    /\ handlers[c].pc = "load"
    /\ handlers[c].name = "delete"
    /\ mappingOptions' = idsOf(savedMappings)
    /\ mappingSelect' = 0
    /\ gone' = gone \cup {handlers[c].selectedId}
    /\ handlers' = [handlers EXCEPT ![c] = NoHandler]
    /\ UNCHANGED <<savedMappings, now, succeeded, started, lastSet>>
    /\ UNCHANGED aroundSnapshots

NextSnapshots ==
    \/ Tick
    \/ SelectMapping
    \/ \E c \in Calls :
           \/ SaveMappingStart(c)
           \/ DeleteMappingStart(c)
           \/ SaveMappingGot(c)
           \/ DeleteMappingGot(c)
           \/ StorageSet(c)
           \/ SaveMappingDone(c)
           \/ DeleteMappingDone(c)

SpecSnapshots == InitSnapshots /\ [][NextSnapshots]_vars

(***************************************************************************)
(* mask with a list of enabled patterns, on texts where the matches of two *)
(* rules overlap, where a rule has several matches, and where a match has  *)
(* the shape of a placeholder.                                             *)
(***************************************************************************)
\* ab県$$田中太郎 | 田中太郎 a@b.c a@b.c | ab県$$, [a県bc], ab県$$ on three
\* lines | [a県bc] 東京都、 | [a県株式会社xx] | 東京都、東京都、
PassTexts ==
    {<<97, 98, 30476, 36, 36, 30000, 20013, 22826, 37070>>,
     <<30000, 20013, 22826, 37070, 32, 97, 64, 98, 46, 99, 32,
       97, 64, 98, 46, 99>>,
     <<97, 98, 30476, 36, 36, 10, 91, 97, 30476, 98, 99, 93, 10,
       97, 98, 30476, 36, 36>>,
     <<91, 97, 30476, 98, 99, 93, 32, 26481, 20140, 37117, 12289>>,
     <<91, 97, 30476, 26666, 24335, 20250, 31038, 120, 120, 93>>,
     <<26481, 20140, 37117, 12289, 26481, 20140, 37117, 12289>>}

\* the lists of enabled patterns of the calls: none, and lists in another
\* order than the registry, with a key that is not registered, with no key
PassLists ==
    {Null, Keys(<<"email", "name">>), Keys(<<"name", "email">>),
     Keys(<<"company", "unknown", "address">>), Keys(<<>>)}

\* a custom pattern of the settings, /東京都/g, under the name of a property
\* of Object.prototype
PassPatterns ==
    {[key |-> "constructor", regex |-> "cityRegex",
      label |-> <<67, 105, 116, 121>>, description |-> "city"]}

InitPass ==
    /\ patterns = constructorPatterns
    /\ counter = <<>>
    /\ mappingTable = <<>>
    /\ text \in PassTexts
    /\ op = "new"
    /\ call = NoCall
    /\ result = NoResult
    /\ prev = NoCall
    /\ restoreText = <<>>
    /\ restoreTable = <<>>
    /\ restored = <<>>
    /\ detected = NoDetect
    /\ InitOthers

\* maskingEngine.addCustomPattern(pattern.key, regex, pattern.label,
\* pattern.description) for a pattern of the settings
AddPassPattern ==
    \E p \in PassPatterns :
        /\ patterns' = addCustomPattern(patterns, p.key, p.regex, p.label,
                                        p.description)
        /\ UNCHANGED <<counter, mappingTable, text, op, call, result, prev,
                       restoreText, restoreTable, restored, detected>>
        /\ UNCHANGED others

\* maskingEngine.mask(text, enabledPatterns)
MaskEnabled ==
    \E enabledPatterns \in PassLists :
        LET r == mask(this, text, enabledPatterns) IN
        /\ op' = "mask"
        /\ call' = [called |-> TRUE, text |-> text,
                    enabledPatterns |-> enabledPatterns,
                    patterns |-> patterns,
                    result |-> [maskedText |-> r.maskedText,
                                detections |-> r.detections,
                                mappingTable |-> r.mappingTable],
                    between |-> FALSE]
        /\ result' = call'.result
        /\ counter' = r.thisCounter
        /\ mappingTable' = r.thisMappingTable
        /\ UNCHANGED <<patterns, text, prev, restoreText, restoreTable,
                       restored, detected>>
        /\ UNCHANGED others

NextPass == AddPassPattern \/ MaskEnabled

SpecPass == InitPass /\ [][NextPass]_vars

(***************************************************************************)
(* The Map objects: this.mappingTable and the mapping tables that mask     *)
(* returns are references, and a Map changes for all who hold a reference  *)
(* to it.                                                                  *)
(***************************************************************************)
\* the mask calls of a session
MaxReturned == 2

\* a pass that empties the Map of the pass before and returns it
maskTablesShared(ms, ref, table) ==
    [maps |-> [ms EXCEPT ![ref] = table], thisTable |-> ref, returned |-> ref]

\* the Maps of a mask call on a text that is not empty:
\* this.mappingTable = new Map(), filled by the pass with the entries of
\* table, and new Map(this.mappingTable) returned
maskTables(ms, ref, table) ==
    [maps |-> ms \o <<table, table>>, thisTable |-> Len(ms) + 1,
     returned |-> Len(ms) + 2]

\* the Maps of a mask call on the empty text: new Map() returned, and
\* this.mappingTable as it was
maskNoText(ms, ref) ==
    [maps |-> Append(ms, <<>>), thisTable |-> ref, returned |-> Len(ms) + 1]

\* the Maps after restore(maskedText, mappingTable), which reads the
\* entries of mappingTable
restoreMaps(ms, ref) == ms

\* the empty text | a@b.c | 田中太郎 a@b.c
TableTexts ==
    {<<>>, <<97, 64, 98, 46, 99>>,
     <<30000, 20013, 22826, 37070, 32, 97, 64, 98, 46, 99>>}

InitTables ==
    /\ patterns = constructorPatterns
    /\ counter = <<>>
    /\ mappingTable = <<>>
    /\ text = <<>>
    /\ op = "new"
    /\ call = NoCall
    /\ result = NoResult
    /\ prev = NoCall
    /\ restoreText = <<>>
    /\ restoreTable = <<>>
    /\ restored = <<>>
    /\ detected = NoDetect
    /\ InitOthers

\* what the calls on the Maps leave alone
aroundObjects == <<stats, available, registryCall, firstAdded, settings,
                   snapshots, panel>>

\* maskingEngine.mask(t)
MaskReturning ==
    \E t \in TableTexts :
        LET r == mask(this, t, Null)
            tables == IF notText(t) THEN maskNoText(maps, thisTable)
                      ELSE maskTables(maps, thisTable, r.thisMappingTable)
        IN  /\ Len(returned) < MaxReturned
            /\ op' = "mask"
            /\ text' = t
            /\ result' = [maskedText |-> r.maskedText,
                          detections |-> r.detections,
                          mappingTable |-> r.mappingTable]
            /\ counter' = r.thisCounter
            /\ mappingTable' = r.thisMappingTable
            /\ maps' = tables.maps
            /\ thisTable' = tables.thisTable
            /\ returned' = Append(returned, [ref |-> tables.returned,
                                             table |-> r.mappingTable])
            /\ UNCHANGED <<patterns, call, prev, restoreText, restoreTable,
                           restored, detected, restoreCall>>
            /\ UNCHANGED aroundObjects

\* maskingEngine.restore(maskedText, mappingTable) with the last masked
\* text and a mapping table that a mask call returned
RestoreReturned ==
    \E k \in 1..Len(returned) :
        LET ref == returned[k].ref IN
        /\ op' = "restore"
        /\ restoreCall' = [ref |-> ref, table |-> maps[ref],
                           patterns |-> patterns]
        /\ restored' = restore(result.maskedText, maps[ref])
        /\ maps' = restoreMaps(maps, ref)
        /\ UNCHANGED <<patterns, counter, mappingTable, text, call, result,
                       prev, restoreText, restoreTable, detected, thisTable,
                       returned>>
        /\ UNCHANGED aroundObjects

\* maskingEngine.detect(text)
DetectAmong ==
    /\ op' = "detect"
    /\ detected' = detect(patterns, text)
    /\ UNCHANGED <<patterns, counter, mappingTable, text, call, result, prev,
                   restoreText, restoreTable, restored, objects>>
    /\ UNCHANGED aroundObjects

\* maskingEngine.addCustomPattern and maskingEngine.removePattern
RegistryAmong ==
    /\ \/ \E p \in CustomPatterns :
              patterns' = addCustomPattern(patterns, p.key, p.regex, p.label,
                                           p.description)
       \/ \E key \in RemovableKeys : patterns' = removePattern(patterns, key)
    /\ op' = "registry"
    /\ UNCHANGED <<counter, mappingTable, text, call, result, prev,
                   restoreText, restoreTable, restored, detected, objects>>
    /\ UNCHANGED aroundObjects

NextTables == MaskReturning \/ RestoreReturned \/ DetectAmong \/ RegistryAmong

SpecTables == InitTables /\ [][NextTables]_vars

(***************************************************************************)
(* The side panel: the handlers of the input events, of the timers and of  *)
(* the messages, and loadCustomPatterns, each cut at its awaits; the mask   *)
(* pass of performMasking goes rule by rule.                               *)
(***************************************************************************)
\* setTimeout(performMasking, 300)
DebounceDelay == 300

\* the times that go by between two steps
Elapses == {100, 200}

\* the calls of loadCustomPatterns that wait at the same time
MaxLoads == 1

\* 田中太郎 | a@b.c | the empty text
PanelTexts ==
    {<<30000, 20013, 22826, 37070>>, <<97, 64, 98, 46, 99>>, <<>>}

\* the settings that the settings page stores
PanelSettings ==
    {NoSettings, [disabledPatterns |-> <<"name">>, customPatterns |-> <<>>]}

\* a clearTimeout that clears nothing
clearNothing(ts, id) == ts

\* clearTimeout(id)
clearTimeout(ts, id) == {tm \in ts : tm.id # id}

\* the id that setTimeout returns: one that no timer set has and that is
\* not the last one returned
timerId(ts, id) ==
    Min({n \in 1..(Cardinality(ts) + 2) :
             n # id /\ \A tm \in ts : tm.id # n})

\* setTimeout(performMasking, delay), id being the id it returns
setTimeout(ts, id, delay) == ts \cup {[id |-> id, remaining |-> delay]}

\* an event loop that starts a task in the middle of a mask pass
suspendedAnywhere(p) == TRUE

\* a task of the side panel can start: no mask pass is between its start
\* and its end, mask and performMasking having no await
suspended(p) == ~p.active

\* performMasking() up to the first rule of mask: the pass it starts on the
\* text t, none when t.trim() is empty
startPass(pats, t) ==
    IF isBlank(t) THEN [NoPass EXCEPT !.text = t, !.registry = pats]
    ELSE [active |-> TRUE, text |-> t, registry |-> pats,
          rules |-> patternsToUseOf(pats, Null), k |-> 0,
          st |-> [maskedText |-> t, detections |-> <<>>,
                  counter |-> <<>>, mappingTable |-> <<>>]]

\* what performMasking() shows for the text t with the registry pats
performMaskingOf(pats, t) ==
    IF isBlank(t) THEN NoShown
    ELSE LET r == mask([patterns |-> pats, counter |-> <<>>,
                        mappingTable |-> <<>>], t, Null)
         IN  [maskedText |-> r.maskedText, mappingTable |-> r.mappingTable]

\* the side panel after init(): the settings of the installation were
\* loaded and the listeners are set
InitPanel ==
    /\ patterns = constructorPatterns
    /\ counter = <<>>
    /\ mappingTable = <<>>
    /\ text = <<>>
    /\ op = "new"
    /\ call = NoCall
    /\ result = NoResult
    /\ prev = NoCall
    /\ restoreText = <<>>
    /\ restoreTable = <<>>
    /\ restored = <<>>
    /\ detected = NoDetect
    /\ InitOthers

\* what the side panel leaves alone
aroundPanel == <<text, op, call, result, prev, restoreText, restoreTable,
                 restored, detected, stats, available, registryCall,
                 firstAdded, currentSettings, pending, loadCall, saveCall,
                 snapshots, objects>>

\* performMasking() started by a handler on the text t
PerformMasking(t) ==
    /\ pass' = startPass(patterns, t)
    /\ IF isBlank(t)
       THEN /\ shown' = NoShown
            /\ UNCHANGED <<counter, mappingTable>>
       ELSE /\ counter' = <<>>
            /\ mappingTable' = <<>>
            /\ UNCHANGED shown

\* the listener of the input events of originalText: the user has made the
\* text t
OnInput ==
    \E t \in PanelTexts :
        LET within == burst.events > 0 /\ sinceInput < DebounceDelay
            id == timerId(timers, debounceTimer)
        IN  /\ suspended(pass)
            /\ originalText' = t
            /\ timers' = setTimeout(clearTimeout(timers, debounceTimer), id,
                                    DebounceDelay)
            /\ debounceTimer' = id
            /\ sinceInput' = 0
            /\ burst' = IF within
                        THEN [burst EXCEPT !.events = Min({2, @ + 1})]
                        ELSE [events |-> 1, runs |-> 0]
            /\ closed' = IF within \/ burst.events = 0 THEN closed
                         ELSE [any |-> TRUE, runs |-> burst.runs,
                               cancelled |->
                                   \E tm \in timers :
                                       tm.id = debounceTimer]
            /\ lastEvent' = "input"
            /\ UNCHANGED <<patterns, counter, mappingTable, storage, shown,
                           loads, inbox, pass, lastRun>>
            /\ UNCHANGED aroundPanel

\* time goes by, during a task or between two tasks
Elapse ==
    \E d \in Elapses :
        /\ sinceInput < DebounceDelay \/ \E tm \in timers : tm.remaining > 0
        /\ sinceInput' = Min({DebounceDelay, sinceInput + d})
        /\ timers' = {[tm EXCEPT !.remaining = Max({0, @ - d})] :
                          tm \in timers}
        /\ UNCHANGED <<patterns, counter, mappingTable, storage,
                       originalText, shown, debounceTimer, loads, inbox,
                       pass, burst, closed, lastEvent, lastRun>>
        /\ UNCHANGED aroundPanel

\* a timer that is due runs performMasking
TimerFires ==
    \E tm \in timers :
        /\ suspended(pass)
        /\ tm.remaining = 0
        /\ timers' = timers \ {tm}
        /\ PerformMasking(originalText)
        /\ burst' = [burst EXCEPT !.runs = Min({2, @ + 1})]
        /\ lastRun' = [ran |-> TRUE, since |-> sinceInput]
        /\ lastEvent' = "timer"
        /\ UNCHANGED <<patterns, storage, originalText, debounceTimer,
                       sinceInput, loads, inbox, closed>>
        /\ UNCHANGED aroundPanel

\* the listener of the messages, on TEXT_FROM_PAGE
TextFromPage ==
    \E t \in PanelTexts :
        /\ suspended(pass)
        /\ originalText' = t
        /\ PerformMasking(t)
        /\ lastEvent' = "page"
        /\ UNCHANGED <<patterns, storage, timers, debounceTimer, sinceInput,
                       loads, inbox, burst, closed, lastRun>>
        /\ UNCHANGED aroundPanel

\* saveSettings() of the settings page stores the settings, and the
\* background sends SETTINGS_UPDATED to the side panel
StoreSettings ==
    \E stored \in PanelSettings :
        /\ ~inbox
        /\ storage' = stored
        /\ inbox' = TRUE
        /\ UNCHANGED <<patterns, counter, mappingTable, originalText, shown,
                       timers, debounceTimer, sinceInput, loads, pass, burst,
                       closed, lastEvent, lastRun>>
        /\ UNCHANGED aroundPanel

\* the listener of the messages, on SETTINGS_UPDATED: loadCustomPatterns()
\* runs up to its await, then performMasking()
SettingsUpdated ==
    /\ suspended(pass)
    /\ inbox
    /\ loads < MaxLoads
    /\ inbox' = FALSE
    /\ loads' = loads + 1
    /\ PerformMasking(originalText)
    /\ lastEvent' = "settings"
    /\ UNCHANGED <<patterns, storage, originalText, timers, debounceTimer,
                   sinceInput, burst, closed, lastRun>>
    /\ UNCHANGED aroundPanel

\* loadCustomPatterns() from what chrome.storage.sync.get gives to its end
LoadResumes ==
    /\ suspended(pass)
    /\ loads > 0
    /\ loads' = loads - 1
    /\ patterns' = loadCustomPatterns(patterns, storage)
    /\ UNCHANGED <<counter, mappingTable, storage, originalText, shown,
                   timers, debounceTimer, sinceInput, inbox, pass, burst,
                   closed, lastEvent, lastRun>>
    /\ UNCHANGED aroundPanel

\* mask: the body of the loop over patternsToUse for the next rule
MaskRule ==
    /\ pass.active
    /\ pass.k < Len(pass.rules)
    /\ LET st == maskPattern(pass.st, pass.rules[pass.k + 1])
       IN  /\ pass' = [pass EXCEPT !.k = @ + 1, !.st = st]
           /\ counter' = st.counter
           /\ mappingTable' = st.mappingTable
    /\ UNCHANGED <<patterns, storage, originalText, shown, timers,
                   debounceTimer, sinceInput, loads, inbox, burst, closed,
                   lastEvent, lastRun>>
    /\ UNCHANGED aroundPanel

\* mask returns, and performMasking shows the masked text and keeps the
\* mapping table
MaskEnd ==
    /\ pass.active
    /\ pass.k = Len(pass.rules)
    /\ pass' = [pass EXCEPT !.active = FALSE]
    /\ shown' = [maskedText |-> pass.st.maskedText,
                 mappingTable |-> pass.st.mappingTable]
    /\ UNCHANGED <<patterns, counter, mappingTable, storage, originalText,
                   timers, debounceTimer, sinceInput, loads, inbox, burst,
                   closed, lastEvent, lastRun>>
    /\ UNCHANGED aroundPanel

NextPanel ==
    \/ OnInput
    \/ Elapse
    \/ TimerFires
    \/ TextFromPage
    \/ StoreSettings
    \/ SettingsUpdated
    \/ LoadResumes
    \/ MaskRule
    \/ MaskEnd

SpecPanel == InitPanel /\ [][NextPanel]_vars

\* the side panel with its settings left as they are: the input events,
\* the timers, the texts from the page and the mask passes
NextDebounce ==
    \/ OnInput
    \/ Elapse
    \/ TimerFires
    \/ TextFromPage
    \/ MaskRule
    \/ MaskEnd

\* a mask pass has a rule to go: what ENABLED <<MaskRule>>_vars is equal to
PassAtRule == pass.active /\ pass.k < Len(pass.rules)

\* WF_vars(MaskRule): a pass has finitely many rules, so that infinitely
\* many steps of MaskRule leave it infinitely often with no rule to go
PassGoesOn == []<>~PassAtRule

\* the event loop of the side panel runs every task that is ready: time
\* goes on, a timer that is due gets its turn however often other tasks
\* come first, and a mask pass, having no await, goes to its end
SpecDebounce ==
    /\ InitPanel
    /\ [][NextDebounce]_vars
    /\ WF_vars(Elapse)
    /\ SF_vars(TimerFires)
    /\ PassGoesOn
    /\ WF_vars(MaskEnd)

(***************************************************************************)
(* What the claims speak of.                                               *)
(***************************************************************************)
\* the offsets at which sub occurs in s
Occurrences(s, sub) ==
    {p \in 0..(Len(s) - Len(sub)) : SubSeq(s, p + 1, p + Len(sub)) = sub}

Contains(s, sub) == Occurrences(s, sub) # {}

\* no bracket in s, hence nothing of the shape of a placeholder
NoBracket(s) == \A k \in 1..Len(s) : s[k] \notin {91, 93}

\* every occurrence of p in s gives way to o as it is written, from left to
\* right, an occurrence starting where the one before it ended
RECURSIVE SubstituteFrom(_, _, _, _)
SubstituteFrom(s, p, o, i) ==
    IF i > Len(s) THEN <<>>
    ELSE IF Len(p) > 0 /\ i - 1 \in Occurrences(s, p)
         THEN o \o SubstituteFrom(s, p, o, i + Len(p))
         ELSE <<s[i]>> \o SubstituteFrom(s, p, o, i + 1)

Substitute(s, p, o) == SubstituteFrom(s, p, o, 1)

\* the last mask call was made on the session text and restore was then
\* called on what it returned
RestoredLastMask ==
    /\ op = "restore"
    /\ call.called
    /\ restoreText = result.maskedText
    /\ restoreTable = result.mappingTable

\* C1: restoring the masked text of a mask call with the mapping table of
\* that call gives back the input text, when the input text has nothing of
\* the shape of a placeholder in it, whatever the rules registered.
C1_RoundTrip ==
    (RestoredLastMask /\ NoBracket(call.text)) => restored = call.text

\* C2: the placeholders of the detections of one mask call are pairwise
\* distinct, custom rules with the label of another rule included.
C2_PlaceholdersDistinct ==
    call.called =>
        \A i, j \in 1..Len(result.detections) :
            i # j => result.detections[i].masked # result.detections[j].masked

\* C3: the mapping table a mask call returns has exactly one entry for each
\* detection, and maps the placeholder of a detection to its original text.
C3_OneEntryPerDetection ==
    call.called =>
        /\ Len(result.mappingTable) = Len(result.detections)
        /\ \A k \in 1..Len(result.detections) :
               /\ MapHas(result.mappingTable, result.detections[k].masked)
               /\ MapGet(result.mappingTable, result.detections[k].masked)
                      = result.detections[k].original

\* C4: with a mapping table of the single entry p -> o, restore gives the
\* text in which every occurrence of p, taken as a literal string, is
\* replaced by o, taken as a literal string.
C4_RestoreLiteral ==
    (op = "restore" /\ Len(restoreTable) = 1) =>
        restored = Substitute(restoreText, restoreTable[1][1],
                              restoreTable[1][2])

\* the offset in the input text of the span of a detection whose original
\* text occurs exactly once in the input text
SourceStart(d) == CHOOSE p \in Occurrences(call.text, d.original) : TRUE

OccursOnce(d) == Cardinality(Occurrences(call.text, d.original)) = 1

\* C5: the detections a mask call returns are ordered from left to right
\* by the position of their spans in the input text, across all rules.
C5_DetectionsLeftToRight ==
    call.called =>
        \A i, j \in 1..Len(result.detections) :
            (/\ i < j
             /\ OccursOnce(result.detections[i])
             /\ OccursOnce(result.detections[j]))
            => SourceStart(result.detections[i])
                   <= SourceStart(result.detections[j])

\* the last mask call masked, with the same rules, the masked text of the
\* mask call before it
MaskedAgain ==
    /\ call.called
    /\ prev.called
    /\ call.text = prev.result.maskedText
    /\ call.patterns = prev.patterns
    /\ call.enabledPatterns = prev.enabledPatterns

\* C6: mask on the masked text of a previous mask call, with the same
\* rules, detects nothing whose span is or includes a placeholder of that
\* previous call.
C6_NoDoubleMasking ==
    MaskedAgain =>
        \A i \in 1..Len(result.detections) :
            \A k \in 1..Len(prev.result.detections) :
                ~Contains(result.detections[i].original,
                          prev.result.detections[k].masked)

\* C7: within one pass no detection takes in a part of a placeholder made
\* earlier in the pass: every value of the mapping table is a substring of
\* the input text.
C7_ValuesFromInput ==
    call.called =>
        \A k \in 1..Len(result.mappingTable) :
            Contains(call.text, result.mappingTable[k][2])

\* C8 as it is written: mask on the empty text and on a text of whitespace
\* only returns the empty masked text, no detection and an empty table.
C8_BlankGivesEmpty ==
    (call.called /\ isBlank(call.text)) => result = NoResult

\* no rule the call used matches in the input text
NothingMatches ==
    \A k \in 1..Len(call.patterns) :
        matchAll(call.text, RegExpOf(call.patterns[k].regex)) = <<>>

\* C8: mask on the empty text returns the empty masked text, no detection
\* and an empty table; on a text of whitespace only that no rule matches in
\* it returns the text as it is, no detection and an empty table.
C8_BlankUnchanged ==
    call.called =>
        /\ call.text = <<>> => result = NoResult
        /\ (call.text # <<>> /\ isBlank(call.text) /\ NothingMatches)
               => result = [maskedText |-> call.text, detections |-> <<>>,
                            mappingTable |-> <<>>]

C8_Witness ==
    /\ op = "mask"
    /\ call.text # <<>>
    /\ isBlank(call.text)
    /\ NothingMatches
    /\ result.maskedText = call.text

\* what mask returns on an engine just constructed that holds the rules of
\* the call
FreshResult(c) ==
    LET r == mask([patterns |-> c.patterns, counter |-> <<>>,
                   mappingTable |-> <<>>], c.text, c.enabledPatterns)
    IN  [maskedText |-> r.maskedText, detections |-> r.detections,
         mappingTable |-> r.mappingTable]

\* the last mask call had the input and the rules of the mask call before it
Repeated ==
    /\ call.called
    /\ prev.called
    /\ call.text = prev.text
    /\ call.patterns = prev.patterns
    /\ call.enabledPatterns = prev.enabledPatterns

Reordered(m, f) == [k \in 1..Len(m) |-> m[f[k]]]

\* C10: restore gives the same text whatever the order of the entries of
\* the mapping table.
C10_OrderIndependent ==
    op = "restore" =>
        \A f \in Permutations(1..Len(restoreTable)) :
            restore(restoreText, Reordered(restoreTable, f)) = restored

\* C11: the offsets of a detection refer to the input text of the mask
\* call: the input text from startIndex to endIndex is the original text
\* of the detection.
C11_OffsetsInInput ==
    call.called =>
        \A k \in 1..Len(result.detections) :
            LET d == result.detections[k]
            IN  /\ 0 <= d.startIndex
                /\ d.startIndex <= d.endIndex
                /\ d.endIndex <= Len(call.text)
                /\ SubSeq(call.text, d.startIndex + 1, d.endIndex)
                       = d.original

\* the uppercase letters, in order
UpperCase ==
    <<65, 66, 67, 68, 69, 70, 71, 72, 73, 74, 75, 76, 77,
      78, 79, 80, 81, 82, 83, 84, 85, 86, 87, 88, 89, 90>>

\* the label of the rule registered under key when the call was made
LabelOf(key) ==
    LET k == CHOOSE k \in 1..Len(call.patterns) :
                 call.patterns[k].key = key
    IN  call.patterns[k].label

\* the detection at index i of the returned list is the k-th replacement
\* of its rule in the pass: the rule's matches are processed from the last
\* to the first and the list is returned reversed
Rank(i) ==
    Cardinality({j \in i..Len(result.detections) :
                     result.detections[j].type = result.detections[i].type})

\* C12: the k-th replacement of a rule in one mask pass, k counted from 1
\* in processing order for that rule alone, has the placeholder
\* '[' label '_' L ']' where L is the k-th uppercase letter, for k from 1
\* to 26; the replacements of other rules do not count.
C12_PlaceholderFormat ==
    /\ \A k \in 1..26 :
           maskLabelOf(<<80>>, k) = <<91, 80, 95, UpperCase[k], 93>>
    /\ call.called =>
           \A i \in 1..Len(result.detections) :
               Rank(i) <= 26 =>
                   result.detections[i].masked
                       = <<91>> \o LabelOf(result.detections[i].type)
                             \o <<95, UpperCase[Rank(i)], 93>>


\* the placeholders of a mapping table
TableKeys(m) == {m[k][1] : k \in 1..Len(m)}

\* the bracket tokens of s: '[', characters that are no bracket, ']'
BracketTokens(s) ==
    {SubSeq(s, p, q) : <<p, q>> \in
        {pq \in (1..Len(s)) \X (1..Len(s)) :
             /\ pq[1] < pq[2]
             /\ s[pq[1]] = 91
             /\ s[pq[2]] = 93
             /\ \A k \in (pq[1] + 1)..(pq[2] - 1) : s[k] \notin {91, 93}}}

\* the bracket tokens of s that are no key of m and contain none
ForeignTokens(s, m) ==
    {tok \in BracketTokens(s) :
         \A key \in TableKeys(m) : ~Contains(tok, key)}

NoKeyLeft ==
    \A key \in TableKeys(restoreTable) : ~Contains(restored, key)

\* C15: restore is idempotent when no placeholder of the mapping table
\* occurs in the text it returned: restoring that text again with the same
\* table gives that text.
C15_RestoreIdempotent ==
    (op = "restore" /\ NoKeyLeft)
        => restore(restored, restoreTable) = restored

\* restore replaced something and left no placeholder of the table
C15_Witness ==
    /\ op = "restore"
    /\ restored # restoreText
    /\ Len(restoreTable) = MaxEntries
    /\ NoKeyLeft
    /\ restore(restored, restoreTable) = restored

\* C16: restore returns the text as it is when the text is empty, when the
\* mapping table is empty and when no mapping table is given.
C16_EmptyUnchanged ==
    op = "restore" =>
        /\ restoreText = <<>> => restored = <<>>
        /\ restoreTable = <<>> => restored = restoreText
        /\ restoreOptional(restoreText, Null) = restoreText
        /\ restoreOptional(<<>>, Keys(restoreTable)) = <<>>

\* restore was called with an empty table on a text that holds a placeholder
C16_Witness ==
    /\ op = "restore"
    /\ restoreTable = <<>>
    /\ Contains(restoreText, <<91, 65, 93>>)
    /\ restored = restoreText

\* the number of detections of a rule key in a list of detections
CountOf(detections, key) ==
    Cardinality({k \in 1..Len(detections) : detections[k].type = key})

RECURSIVE SumStats(_, _)
SumStats(st, k) ==
    IF k > Len(st) THEN 0 ELSE st[k].count + SumStats(st, k + 1)

\* C17: getStatistics returns one entry for each rule key that occurs in
\* the list of detections, with the number of the detections of that key
\* as its count, and no entry for another key: the counts sum to the
\* length of the list.
C17_StatisticsCount ==
    op = "statistics" =>
        /\ \A d \in {result.detections[k] : k \in 1..Len(result.detections)} :
               \E k \in 1..Len(stats) :
                   /\ stats[k].type = d.type
                   /\ stats[k].count = CountOf(result.detections, d.type)
        /\ \A k \in 1..Len(stats) :
               CountOf(result.detections, stats[k].type) > 0
        /\ \A j, k \in 1..Len(stats) :
               stats[j].type = stats[k].type => j = k
        /\ SumStats(stats, 1) = Len(result.detections)

\* the entries of the registry under a key
EntriesOf(pats, key) == {k \in 1..Len(pats) : pats[k].key = key}

\* C18: the keys of the registry are pairwise distinct after any sequence
\* of addCustomPattern and removePattern calls; addCustomPattern under a
\* key that is registered leaves one entry for the key, with the regex,
\* label and description of the call, and the other entries as they were;
\* removePattern of a key that is not registered leaves the registry as it
\* was.
C18_KeysUnique ==
    /\ \A key \in keysOf(patterns) :
           Cardinality(EntriesOf(patterns, key)) = 1
    /\ (/\ registryCall.name = "add"
        /\ registryCall.key \in keysOf(registryCall.before))
           => /\ Len(patterns) = Len(registryCall.before)
              /\ \A k \in 1..Len(patterns) :
                     IF registryCall.before[k].key = registryCall.key
                     THEN patterns[k]
                              = [key |-> registryCall.key,
                                 regex |-> registryCall.regex,
                                 label |-> registryCall.label,
                                 description |-> registryCall.description]
                     ELSE patterns[k] = registryCall.before[k]
    /\ (/\ registryCall.name = "remove"
        /\ registryCall.key \notin keysOf(registryCall.before))
           => patterns = registryCall.before

\* a custom rule was registered again, under its key, with another regex,
\* label and description
C18_Witness ==
    /\ registryCall.name = "add"
    /\ registryCall.key \notin {BuiltInKeys[k] : k \in 1..Len(BuiltInKeys)}
    /\ \E k \in 1..Len(registryCall.before) :
           /\ registryCall.before[k].key = registryCall.key
           /\ registryCall.before[k].label # registryCall.label
           /\ patterns[k].label = registryCall.label
    /\ Len(patterns) > Len(constructorPatterns)

\* the keys of the built-in rules registered, in the order of the
\* constructor
RemainingBuiltIns ==
    LET registered(key) == key \in keysOf(patterns)
    IN  SelectSeq(BuiltInKeys, registered)

\* C19: getAvailablePatterns lists the built-in rules that are registered
\* first, in the order name, email, phone, address, company, and then the
\* custom rules in the order they were first added, whatever the keys.
C19_BuiltInsFirst ==
    available.listed =>
        [k \in 1..Len(available.list) |-> available.list[k].key]
            = RemainingBuiltIns \o firstAdded

\* the stored custom patterns whose source compiles
Compiling(customPatterns) ==
    LET ok(p) == compiles(p.regex) IN SelectSeq(customPatterns, ok)

\* the side panel has run loadCustomPatterns on the settings stored last
Loaded == loadCall.called /\ ~pending

SeqRange(q) == {q[k] : k \in 1..Len(q)}

\* C13: when every change of the settings was followed by a completed
\* loadCustomPatterns, the keys of the rules of the engine are the keys of
\* the built-in rules that are not in the disabledPatterns stored last and
\* the keys of the customPatterns stored last (their sources compile): a
\* built-in rule enabled again is active again, a custom pattern deleted
\* is no longer active.
C13_ActiveKeys ==
    (/\ Loaded
     /\ loadCall.each
     /\ Compiling(storage.customPatterns) = storage.customPatterns) =>
        keysOf(patterns)
            = (SeqRange(BuiltInKeys) \ SeqRange(storage.disabledPatterns))
                  \cup {p.key : p \in SeqRange(storage.customPatterns)}

\* the stored custom pattern that is the last of its key to compile
LastOf(customPatterns, key) ==
    LET q == Compiling(customPatterns)
    IN  q[CHOOSE k \in 1..Len(q) :
              /\ q[k].key = key
              /\ \A j \in (k + 1)..Len(q) : q[j].key # key]

\* C20: a registration that fails leaves the registry as it was. After
\* loadCustomPatterns the registry is what it would be without the stored
\* patterns whose source does not compile: none of them is registered, the
\* stored patterns that compile are registered; and savePattern with a
\* source that does not compile leaves the custom patterns of the settings
\* page as they were.
C20_FailedRegistration ==
    /\ Loaded =>
           /\ patterns
                  = loadCustomPatterns(
                        loadCall.before,
                        [storage EXCEPT !.customPatterns = Compiling(@)])
           /\ \A p \in SeqRange(Compiling(storage.customPatterns)) :
                  \E k \in 1..Len(patterns) :
                      patterns[k]
                          = [key |-> p.key,
                             regex |-> LastOf(storage.customPatterns,
                                              p.key).regex,
                             label |-> LastOf(storage.customPatterns,
                                              p.key).label,
                             description |->
                                 LastOf(storage.customPatterns,
                                        p.key).description]
           /\ \A p \in SeqRange(storage.customPatterns) :
                  (/\ ~compiles(p.regex)
                   /\ p.key \notin keysOf(loadCall.before)
                   /\ p.key \notin
                          {q.key : q \in SeqRange(Compiling(
                                          storage.customPatterns))})
                      => p.key \notin keysOf(patterns)
    /\ (saveCall.called /\ ~compiles(saveCall.regex))
           => currentSettings.customPatterns = saveCall.before

\* loadCustomPatterns met a stored pattern that does not compile before
\* one that does, and savePattern was called with a source that does not
\* compile
C20_Witness ==
    /\ Loaded
    /\ Len(storage.customPatterns) = 2
    /\ ~compiles(storage.customPatterns[1].regex)
    /\ compiles(storage.customPatterns[2].regex)
    /\ storage.customPatterns[2].key \in keysOf(patterns)
    /\ storage.customPatterns[2].key \notin keysOf(loadCall.before)
    /\ storage.customPatterns[1].key \notin keysOf(patterns)
    /\ saveCall.called
    /\ saveCall.regex = "("
    /\ saveCall.before # <<>>

\* the snapshots of a list are newest first
NewestFirst(saved) ==
    \A i, j \in 1..Len(saved) :
        i < j => saved[i].createdAt >= saved[j].createdAt

\* the last write of the stored list was that of a saveMapping that had
\* read the list it replaced, and that list was full
SavedOnFull ==
    /\ lastSet.name = "save"
    /\ lastSet.read = lastSet.before
    /\ Len(lastSet.before) = MaxSnapshots

\* C21: the stored list never holds more than 10 snapshots, it is ordered
\* newest first, and a saveMapping that found 10 snapshots stored wrote its
\* new snapshot followed by the 9 newest of them: the oldest one alone is
\* evicted.
C21_SnapshotsCapped ==
    /\ Len(savedMappings) <= MaxSnapshots
    /\ NewestFirst(savedMappings)
    /\ SavedOnFull =>
           /\ Len(lastSet.written) = MaxSnapshots
           /\ SubSeq(lastSet.written, 2, MaxSnapshots)
                  = SubSeq(lastSet.before, 1, MaxSnapshots - 1)
           /\ \A i \in 1..MaxSnapshots :
                  lastSet.written[1].createdAt >= lastSet.before[i].createdAt

\* a saveMapping found 10 snapshots stored and its list is the stored one
C21_Witness ==
    /\ SavedOnFull
    /\ savedMappings = lastSet.written
    /\ \A c \in Calls : handlers[c].pc = "idle"

\* no call of saveMapping or deleteMapping is on its way
AllIdle == \A c \in Calls : handlers[c].pc = "idle"

\* C29: once the overlapping calls of saveMapping and deleteMapping are
\* over, every snapshot whose save reported success, and that no
\* deleteMapping removed and the cap did not evict, is in the stored list,
\* and no two stored snapshots have the same id.
C29_NoSnapshotLost ==
    AllIdle =>
        /\ (succeeded \ gone) \subseteq idsOf(savedMappings)
        /\ \A i, j \in 1..Len(savedMappings) :
               i # j => savedMappings[i].id # savedMappings[j].id

\* the keys a mask call works with: those of its registry when it was given
\* no list, else those of its list
CallKeys ==
    IF call.enabledPatterns.isNull THEN keysOf(call.patterns)
    ELSE SeqRange(call.enabledPatterns.list)

\* the rules of the registry of the call with one of these keys, in the
\* order in which the registry lists its rules
CallRules ==
    LET listed(p) == p.key \in CallKeys
    IN  SelectSeq(ObjectEntries(call.patterns), listed)

\* the pass of the call after its first i rules
PassAfter(i) ==
    maskPatterns([maskedText |-> call.text, detections |-> <<>>,
                  counter |-> <<>>, mappingTable |-> <<>>],
                 SubSeq(CallRules, 1, i), 1)

\* the detections of the call for the rule of a key, in the order of the
\* list returned
DetectionsOf(key) ==
    LET ofKey(d) == d.type = key IN SelectSeq(result.detections, ofKey)

\* C23: a mask call without a list of enabled patterns applies every rule
\* of the registry, and a call with a list applies the registered rules
\* whose key is in the list, in the order of the registry: its detections
\* are all of a listed key, and its masked text, detections and mapping
\* table are those of the pass over these rules in registry order.
C23_EnabledPatterns ==
    call.called =>
        /\ \A k \in 1..Len(result.detections) :
               /\ result.detections[k].type \in CallKeys
               /\ result.detections[k].type \in keysOf(call.patterns)
        /\ LET st == PassAfter(Len(CallRules)) IN
               /\ result.maskedText = st.maskedText
               /\ result.detections = Reverse(st.detections)
               /\ result.mappingTable = st.mappingTable

\* a call listed 'email' before 'name' and both rules made a detection
C23_Witness ==
    /\ call.called
    /\ call.enabledPatterns = Keys(<<"email", "name">>)
    /\ DetectionsOf("name") # <<>>
    /\ DetectionsOf("email") # <<>>
    /\ keysOf(call.patterns) # CallKeys

\* the matches of the i-th rule of the call in the text that the rules
\* before it left
MatchesIn(i) ==
    matchAll(PassAfter(i - 1).maskedText, RegExpOf(CallRules[i].regex))

\* those of them that have not the shape of a placeholder
MatchesOf(i) ==
    LET notMasked(m) == ~isMasked(m.text) IN SelectSeq(MatchesIn(i), notMasked)

\* the matches of the i-th rule of the call in the text given to the call
SourceMatches(i) == matchAll(call.text, RegExpOf(CallRules[i].regex))

\* two matches in the same text have a character in common
Overlap(m1, m2) ==
    /\ m1.index < m2.index + Len(m2.text)
    /\ m2.index < m1.index + Len(m1.text)

\* no rule before the i-th one has a match in the text given to the call
\* that overlaps m
FirstOn(i, m) ==
    \A h \in 1..(i - 1) :
        \A c \in 1..Len(SourceMatches(h)) : ~Overlap(SourceMatches(h)[c], m)

\* C22 as stated: when a match of a rule and a match of a later rule of the
\* registry overlap in the text given to the call, and no rule before them
\* has a match on that span, the earlier rule replaces its whole match: the
\* call has a detection of that rule for that text.
C22_EarlierRuleReplaces ==
    call.called =>
        \A i, j \in 1..Len(CallRules) :
            i < j =>
                \A a \in 1..Len(SourceMatches(i)) :
                    \A b \in 1..Len(SourceMatches(j)) :
                        LET mi == SourceMatches(i)[a]
                            mj == SourceMatches(j)[b]
                        IN  Overlap(mi, mj) /\ FirstOn(i, mi) =>
                                \E d \in SeqRange(DetectionsOf(
                                                      CallRules[i].key)) :
                                    /\ d.original = mi.text
                                    /\ d.startIndex = mi.index

\* C22: the rules are applied in registry order and the matches of a rule
\* are those in the text that the rules before it left; the rule makes one
\* detection for each of these matches that has not the shape of a
\* placeholder, with the whole text of the match and its offsets, and the
\* masked text returned is the text that the last rule left.
C22_RegistryOrder ==
    call.called =>
        /\ \A i \in 1..Len(CallRules) :
               LET ms == MatchesOf(i)
                   ds == DetectionsOf(CallRules[i].key)
               IN  /\ Len(ds) = Len(ms)
                   /\ \A k \in 1..Len(ms) :
                          /\ ds[k].original = ms[k].text
                          /\ ds[k].startIndex = ms[k].index
                          /\ ds[k].endIndex = ms[k].index + Len(ms[k].text)
        /\ result.maskedText = PassAfter(Len(CallRules)).maskedText

\* a match of a rule and a match of a later rule overlap in the text given
\* to the call; the earlier rule made a detection of its whole match, and
\* the later rule made a detection of a text that holds the placeholder
C22_Witness ==
    /\ call.called
    /\ \E i, j \in 1..Len(CallRules) :
           /\ i < j
           /\ \E a \in 1..Len(SourceMatches(i)) :
                  \E b \in 1..Len(SourceMatches(j)) :
                      /\ Overlap(SourceMatches(i)[a], SourceMatches(j)[b])
                      /\ \E d \in SeqRange(DetectionsOf(CallRules[i].key)) :
                             /\ d.original = SourceMatches(i)[a].text
                             /\ \E e \in SeqRange(DetectionsOf(
                                                      CallRules[j].key)) :
                                    Occurrences(e.original, d.masked) # {}

\* the pass of the call as its i-th rule starts on its matches: the text
\* and the counters that the rules before it left
RuleStart(i) ==
    LET st == PassAfter(i - 1)
        patternKey == CallRules[i].key
    IN  IF notCounter(st.counter, patternKey)
        THEN [st EXCEPT !.counter = setCounter(st.counter, patternKey, 0)]
        ELSE st

\* from the k-th match down to the first one, the text between the offsets
\* of the match is the text of the match at the time the match is spliced
RECURSIVE SpliceSafe(_, _, _, _)
SpliceSafe(st, rule, matches, k) ==
    \/ k = 0
    \/ LET m == matches[k] IN
           /\ m.index + Len(m.text) <= Len(st.maskedText)
           /\ SubSeq(st.maskedText, m.index + 1, m.index + Len(m.text))
                  = m.text
           /\ SpliceSafe(maskMatch(st, rule.key, rule, m), rule, matches,
                         k - 1)

\* the text t copied from left to right from the offset from, with the
\* placeholder of the k-th detection in the place of the k-th match
RECURSIVE CopyFrom(_, _, _, _, _)
CopyFrom(t, matches, ds, k, from) ==
    IF k > Len(matches) THEN SubSeq(t, from + 1, Len(t))
    ELSE SubSeq(t, from + 1, matches[k].index) \o ds[k].masked
             \o CopyFrom(t, matches, ds, k + 1,
                         matches[k].index + Len(matches[k].text))

\* C25: in the pass of each rule of a mask call the matches are spliced
\* from the last to the first, and at each splice the text between the
\* offsets of the match is the text of the match; the text the rule leaves
\* is the text it found with each match that was not skipped replaced by
\* its placeholder and everything else as it was.
C25_SpliceOffsets ==
    call.called =>
        /\ \A i \in 1..Len(CallRules) :
               /\ SpliceSafe(RuleStart(i), CallRules[i], MatchesIn(i),
                             Len(MatchesIn(i)))
               /\ Len(DetectionsOf(CallRules[i].key)) = Len(MatchesOf(i))
               /\ PassAfter(i).maskedText
                      = CopyFrom(PassAfter(i - 1).maskedText, MatchesOf(i),
                                 DetectionsOf(CallRules[i].key), 1, 0)
        /\ result.maskedText = PassAfter(Len(CallRules)).maskedText

\* a rule of the call replaced two matches by placeholders of another
\* length than the matches
C25_Witness ==
    /\ call.called
    /\ \E i \in 1..Len(CallRules) :
           LET ds == DetectionsOf(CallRules[i].key) IN
               /\ Len(ds) >= 2
               /\ Len(ds[2].masked) # Len(ds[2].original)
               /\ Len(MatchesOf(i)) = Len(ds)

\* the sequence letters of the placeholders of the detections of a key:
\* the character before the closing bracket
LettersOf(key) ==
    {d.masked[Len(d.masked) - 1] : d \in SeqRange(DetectionsOf(key))}

\* C26: a match that begins with '[' and ends with ']' makes no detection
\* and no entry of the mapping table, a rule whose matches are all of that
\* shape leaves the text as it found it, and the letters of the
\* placeholders of each rule of a call are the first letters from A on, as
\* many as the rule has matches that were not skipped.
C26_SkipPlaceholders ==
    call.called =>
        /\ \A k \in 1..Len(result.detections) :
               ~isMasked(result.detections[k].original)
        /\ \A k \in 1..Len(result.mappingTable) :
               ~isMasked(result.mappingTable[k][2])
        /\ \A i \in 1..Len(CallRules) :
               /\ MatchesOf(i) = <<>> =>
                      PassAfter(i).maskedText = PassAfter(i - 1).maskedText
               /\ Len(DetectionsOf(CallRules[i].key)) = Len(MatchesOf(i))
               /\ LettersOf(CallRules[i].key)
                      = {64 + n : n \in 1..Len(MatchesOf(i))}

\* C27: the mapping table a mask call returned is a Map of its own, that
\* neither the engine nor another call holds, and its entries stay those of
\* the return whatever mask, restore, detect and registry calls follow;
\* restore leaves the entries of the table it was given and the registry as
\* they were when it was called.
C27_ReturnedTables ==
    /\ \A k \in 1..Len(returned) :
           /\ maps[returned[k].ref] = returned[k].table
           /\ returned[k].ref # thisTable
           /\ \A j \in 1..Len(returned) :
                  j # k => returned[j].ref # returned[k].ref
    /\ op = "restore" =>
           /\ maps[restoreCall.ref] = restoreCall.table
           /\ patterns = restoreCall.patterns

\* a table with entries was returned, a mask call that returned other
\* entries followed, and the first table was then given to restore
C27_Witness ==
    /\ Len(returned) = MaxReturned
    /\ returned[1].table # <<>>
    /\ \E k \in 2..Len(returned) :
           /\ returned[k].table # <<>>
           /\ returned[k].table # returned[1].table
    /\ op = "restore"
    /\ restoreCall.ref = returned[1].ref
    /\ patterns # constructorPatterns


\* the registry is not written in this step
RegistryKept == patterns' = patterns

\* this step is the end of a mask pass
PassEnds == pass.active /\ ~pass'.active

\* C24: in the side panel no removePattern and no addCustomPattern runs
\* between the start and the end of a mask pass, whatever the order of the
\* handlers of the messages, of the timers and of loadCustomPatterns: the
\* registry is the same after every step of a pass as before it, and what
\* the pass shows at its end is the masking of its text by the registry it
\* started with.
C24_MaskExclusive ==
    [][pass.active =>
           /\ RegistryKept
           /\ PassEnds => shown' = performMaskingOf(pass.registry, pass.text)
      ]_vars

\* a mask pass is between two rules while a call of loadCustomPatterns that
\* would write the registry waits for the storage, a timer is due and a
\* SETTINGS_UPDATED message is on its way
C24_Witness ==
    /\ pass.active
    /\ pass.k > 0
    /\ pass.k < Len(pass.rules)
    /\ loads > 0
    /\ loadCustomPatterns(patterns, storage) # patterns
    /\ inbox
    /\ \E tm \in timers : tm.remaining = 0

\* the handler of SETTINGS_UPDATED and the loadCustomPatterns it started
\* have finished, and nothing ran performMasking since
SettingsHandled == lastEvent = "settings" /\ loads = 0 /\ ~pass.active

\* C28: after the handler of SETTINGS_UPDATED and the loadCustomPatterns it
\* started have finished, the masked text and the mapping table shown are
\* those that the registry with the stored settings applied gives for the
\* text of the panel.
C28_RemaskedWithNewRules ==
    SettingsHandled => shown = performMaskingOf(patterns, originalText)


\* the timer with the id i is set and has neither run nor been cleared
TimerPending(i) == \E tm \in timers : tm.id = i

\* the ids of the timers
TimerIds == {tm.id : tm \in timers} \cup {debounceTimer}

\* at most one debounce timer is pending
OneTimer == Cardinality(timers) <= 1

\* a run that a timer made started 300 ms or more after the last input
\* event, that is after the last event of its burst
RunAfterBurst == lastRun.ran => lastRun.since = DebounceDelay

\* this step is the run of performMasking that a timer makes
TimerRuns ==
    /\ Cardinality(timers') < Cardinality(timers)
    /\ debounceTimer' = debounceTimer

\* the run masks the text that the field has as the run starts
RunOnPresentText ==
    TimerRuns =>
        /\ pass'.text = originalText
        /\ isBlank(originalText) => shown' = NoShown
        /\ ~isBlank(originalText) => pass'.active /\ pass'.k = 0

\* the burst that the last input event ended got exactly one run
OneRunEach == closed.any => closed.runs = 1

\* the same, but for a burst whose timer was due and had not run yet as
\* the next input event was handled: that handler cleared it
OneRunUnlessCleared ==
    closed.any => closed.runs = (IF closed.cancelled THEN 0 ELSE 1)

\* a timer that is set does not stay pending: it runs, or an input event
\* clears it
TimerSettles == \A i \in 1..2 : TimerPending(i) ~> ~TimerPending(i)

\* C30 as the specification states it: every burst of input events, each
\* less than 300 ms after the one before, gets exactly one run of
\* performMasking.
C30_OneRunPerBurst == []OneRunEach

\* C30: at most one debounce timer is pending; a run that a timer makes
\* comes 300 ms or more after the last input event and masks the text that
\* the field has then; a burst gets exactly one run, or none when the input
\* event that starts the next burst is handled while the timer is due and
\* has not run, that handler clearing it; and a timer never stays pending.
C30_Debounce ==
    /\ [](OneTimer /\ RunAfterBurst /\ OneRunUnlessCleared /\ TimerIds \subseteq 0..2)
    /\ [][RunOnPresentText]_vars
    /\ TimerSettles

\* a burst of two input events got its one run, on the text of the second
\* event, and the next burst has begun
C30_Witness ==
    /\ closed.any
    /\ closed.runs = 1
    /\ ~closed.cancelled
    /\ lastRun.ran
    /\ burst.events = 2
    /\ burst.runs = 0
    /\ timers # {}
    /\ pass.text # originalText

====
